---- MODULE Spec2Model ----
(***************************************************************************)
(* A model of the segmentation engine of long_text_agent:                  *)
(*   TextSegmenter (segmenter.py), HierarchicalSplitter                     *)
(*   (hierarchical_splitter.py) and AstGrepSplitter (ast_grep_splitter.py). *)
(*                                                                         *)
(* A Python str is modelled as a sequence of characters; a character is a  *)
(* one-element atom written as a TLA+ string ("a", ".", "\n", ...).        *)
(* Characters outside ASCII are written by name (e.g. "IDEO_FULL_STOP").   *)
(***************************************************************************)
EXTENDS Integers, Sequences, FiniteSets, TLC

(***************************************************************************)
(* Bounds of the model.                                                    *)
(***************************************************************************)
\* longest input text of the segment_text specification
MaxLen == 3
\* largest max_chunk_chars of the segment_text specification
MaxChunk == 3
\* longest configured pattern list (ast_grep.patterns)
MaxPatterns == 2

\* largest character offset of the ranges given to _merge_ranges on its own
MaxOffset == 4
\* longest range list given to _merge_ranges on its own
MaxRanges == 3

\* longest text given to HierarchicalSplitter.split on its own
MaxHeadingLen == 5

\* longest fragment given to _split_long_sentence on its own
MaxSliceLen == 6
MaxPathLen == 5
MaxRetries == 2
MaxEnvSet == 2

(***************************************************************************)
(* Characters.                                                             *)
(***************************************************************************)
NL == "\n"

\* the characters the input texts are built from
Alphabet == {"a", ".", NL, "1", ";"}

\* what str.strip() removes and the regex class \s matches
Whitespace == {" ", NL, "\t", "\r"}

\* the character class [。！？.!?] of _split_sentences
SentencePunct ==
    {"IDEO_FULL_STOP", "FULLWIDTH_EXCLAMATION", "FULLWIDTH_QUESTION", ".", "!", "?"}

\* the character class [一二三四五六七八九十0-9] of _is_heading
HeadingNumerals ==
    {"0", "1", "2", "3", "4", "5", "6", "7", "8", "9",
     "CJK_1", "CJK_2", "CJK_3", "CJK_4", "CJK_5",
     "CJK_6", "CJK_7", "CJK_8", "CJK_9", "CJK_10"}

(***************************************************************************)
(* Python built-ins used by the code.                                      *)
(***************************************************************************)
Min(a, b) == IF a < b THEN a ELSE b

Max(a, b) == IF a > b THEN a ELSE b

\* s[i:j] for 0 <= i, 0 <= j: both ends clamp to len(s)
PySlice(s, i, j) == SubSeq(s, Min(i, Len(s)) + 1, Min(j, Len(s)))

\* s[-k:] for k >= 0: the last k characters, all of s when k >= len(s),
\* and all of s when k = 0 (s[-0:] is s[0:])
PySuffix(s, k) ==
    IF k = 0 \/ k >= Len(s) THEN s ELSE SubSeq(s, Len(s) - k + 1, Len(s))

\* "".join(parts)
RECURSIVE Concat(_)
Concat(parts) ==
    IF parts = <<>> THEN <<>> ELSE Head(parts) \o Concat(Tail(parts))

\* sep.join(parts)
RECURSIVE Join(_, _)
Join(sep, parts) ==
    IF parts = <<>> THEN <<>>
    ELSE IF Len(parts) = 1 THEN Head(parts)
    ELSE Head(parts) \o sep \o Join(sep, Tail(parts))

\* s.lstrip()
RECURSIVE LStrip(_)
LStrip(s) ==
    IF s # <<>> /\ Head(s) \in Whitespace THEN LStrip(Tail(s)) ELSE s

\* s.rstrip()
RECURSIVE RStrip(_)
RStrip(s) ==
    IF s # <<>> /\ s[Len(s)] \in Whitespace
    THEN RStrip(SubSeq(s, 1, Len(s) - 1))
    ELSE s

\* s.strip()
Strip(s) == LStrip(RStrip(s))

\* text.splitlines(): the lines without their line ends, the k-th line
\* running from the line end before it to its own; a final line end opens
\* no further line
SplitLines(text) ==
    LET ends == {i \in 1..Len(text) : text[i] = NL}
        count == Cardinality(ends)
                 + (IF text # <<>> /\ text[Len(text)] # NL THEN 1 ELSE 0)
        EndOf(k) ==
            IF k = 0 THEN 0
            ELSE IF k > Cardinality(ends) THEN Len(text) + 1
            ELSE CHOOSE i \in ends : Cardinality({j \in ends : j <= i}) = k
    IN  [k \in 1..count |-> SubSeq(text, EndOf(k - 1) + 1, EndOf(k) - 1)]

(***************************************************************************)
(* TextSegmenter: the assembler (segmenter.py).                            *)
(***************************************************************************)
\* the while loop of _split_long_sentence, from start_index on
RECURSIVE SplitLongFrom(_, _, _)
SplitLongFrom(sentence, max_len, start_index) ==
    IF start_index < Len(sentence)
    THEN LET end_index == Min(start_index + max_len, Len(sentence))
         IN  <<PySlice(sentence, start_index, end_index)>>
                 \o SplitLongFrom(sentence, max_len, end_index)
    ELSE <<>>

\* a variant whose slices run one character past max_len
SplitLongOffByOne(sentence, max_len) == SplitLongFrom(sentence, max_len + 1, 0)

\* a variant that returns the full slices only and drops a shorter last one
SplitLongDropRemainder(sentence, max_len) ==
    [i \in 1..(Len(sentence) \div max_len) |->
        SubSeq(sentence, (i - 1) * max_len + 1, i * max_len)]

_split_long_sentence(sentence, max_len) == SplitLongFrom(sentence, max_len, 0)

\* a variant that prepends the head of the chunk before, not its tail
ApplyOverlapHead(chunks, overlap_chars) ==
    [index \in 1..Len(chunks) |->
        IF index = 1
        THEN chunks[index]
        ELSE PySlice(chunks[index - 1], 0, overlap_chars) \o chunks[index]]

\* _apply_overlap: every chunk but the first gets the tail of the chunk
\* before it in the list it was given
_apply_overlap(chunks, overlap_chars) ==
    [index \in 1..Len(chunks) |->
        IF index = 1
        THEN chunks[index]
        ELSE PySuffix(chunks[index - 1], overlap_chars) \o chunks[index]]

\* the first loop of _post_process_chunks: the list "processed" before overlap
RECURSIVE SplitOversized(_, _)
SplitOversized(chunks, max_chunk_chars) ==
    IF chunks = <<>> THEN <<>>
    ELSE (IF Len(Head(chunks)) <= max_chunk_chars
          THEN <<Head(chunks)>>
          ELSE _split_long_sentence(Head(chunks), max_chunk_chars))
         \o SplitOversized(Tail(chunks), max_chunk_chars)

\* whether _post_process_chunks runs the overlap pass
OverlapApplies(config) == config.enable_overlap /\ config.overlap_chars > 0

_post_process_chunks(chunks, config) ==
    LET processed == SplitOversized(chunks, config.max_chunk_chars)
    IN  IF OverlapApplies(config)
        THEN _apply_overlap(processed, config.overlap_chars)
        ELSE processed

\* a variant that appends only while the total stays below max_chunk_chars
AccumulateStrict(st, unit, max_chunk_chars) ==
    IF st.current_chunk = <<>>
    THEN [st EXCEPT !.current_chunk = unit]
    ELSE IF Len(st.current_chunk) + Len(unit) < max_chunk_chars
         THEN [st EXCEPT !.current_chunk = st.current_chunk \o unit]
         ELSE [chunks |-> Append(st.chunks, st.current_chunk),
               current_chunk |-> unit]

\* one unit (a sentence, or a slice of an oversized sentence) meets the
\* running buffer: st = [chunks, current_chunk]
Accumulate(st, unit, max_chunk_chars) ==
    IF st.current_chunk = <<>>
    THEN [st EXCEPT !.current_chunk = unit]
    ELSE IF Len(st.current_chunk) + Len(unit) <= max_chunk_chars
         THEN [st EXCEPT !.current_chunk = st.current_chunk \o unit]
         ELSE [chunks |-> Append(st.chunks, st.current_chunk),
               current_chunk |-> unit]

\* the inner loop "for part in split_parts"
RECURSIVE AccumulateParts(_, _, _)
AccumulateParts(st, split_parts, max_chunk_chars) ==
    IF split_parts = <<>> THEN st
    ELSE AccumulateParts(Accumulate(st, Head(split_parts), max_chunk_chars),
                         Tail(split_parts), max_chunk_chars)

\* the loop "for sentence in sentences"
RECURSIVE MergeLoop(_, _, _)
MergeLoop(st, sentences, max_chunk_chars) ==
    IF sentences = <<>> THEN st
    ELSE LET sentence == Head(sentences)
             next == IF Len(sentence) > max_chunk_chars
                     THEN AccumulateParts(
                              st,
                              _split_long_sentence(sentence, max_chunk_chars),
                              max_chunk_chars)
                     ELSE Accumulate(st, sentence, max_chunk_chars)
         IN  MergeLoop(next, Tail(sentences), max_chunk_chars)

\* a variant without "if current_chunk != '': chunks.append(current_chunk)"
MergeWithoutFinalFlush(sentences, max_chunk_chars) ==
    MergeLoop([chunks |-> <<>>, current_chunk |-> <<>>],
              sentences, max_chunk_chars).chunks

\* the primary pass of segment_text: the list "chunks" handed to
\* _post_process_chunks on the sentence path
MergeSentences(sentences, max_chunk_chars) ==
    LET st == MergeLoop([chunks |-> <<>>, current_chunk |-> <<>>],
                        sentences, max_chunk_chars)
    IN  IF st.current_chunk # <<>>
        THEN Append(st.chunks, st.current_chunk)
        ELSE st.chunks

\* re.split(r"([.!?...])", text): the pieces between the punctuation marks,
\* each mark a piece of its own; pieces may be empty
RECURSIVE ReSplitPunctFrom(_, _, _)
ReSplitPunctFrom(text, i, cur) ==
    IF i > Len(text) THEN <<cur>>
    ELSE IF text[i] \in SentencePunct
         THEN <<cur, <<text[i]>> >> \o ReSplitPunctFrom(text, i + 1, <<>>)
         ELSE ReSplitPunctFrom(text, i + 1, Append(cur, text[i]))

ReSplitPunct(text) == ReSplitPunctFrom(text, 1, <<>>)

\* the loop "for part in parts" of _split_sentences:
\* st = [sentences, buffer_text]
RECURSIVE SentenceLoop(_, _)
SentenceLoop(st, parts) ==
    IF parts = <<>> THEN st
    ELSE LET part == Head(parts)
             next ==
                 IF part = <<>> THEN st
                 ELSE IF Head(part) \in SentencePunct
                      THEN [sentences |->
                                Append(st.sentences, st.buffer_text \o part),
                            buffer_text |-> <<>>]
                      ELSE IF st.buffer_text = <<>>
                           THEN [st EXCEPT !.buffer_text = part]
                           ELSE [st EXCEPT !.buffer_text = st.buffer_text \o part]
         IN  SentenceLoop(next, Tail(parts))

\* a variant without "if buffer_text != '': sentences.append(buffer_text)"
SplitSentencesDropTail(text) ==
    SentenceLoop([sentences |-> <<>>, buffer_text |-> <<>>],
                 ReSplitPunct(text)).sentences

_split_sentences(text) ==
    LET st == SentenceLoop([sentences |-> <<>>, buffer_text |-> <<>>],
                           ReSplitPunct(text))
    IN  IF st.buffer_text # <<>>
        THEN Append(st.sentences, st.buffer_text)
        ELSE st.sentences

(***************************************************************************)
(* TextSegmenter._is_probably_code (segmenter.py).                         *)
(* A configured regex is modelled as the set of characters it matches:     *)
(* re.findall(p, text) finds the members of p in text, re.match(p, line)   *)
(* tests the first character of line.                                      *)
(***************************************************************************)
\* len(re.findall(pattern, text)): the hits in the two halves of the text
RECURSIVE CountIn(_, _)
CountIn(text, pattern) ==
    IF text = <<>> THEN 0
    ELSE IF Len(text) = 1 THEN (IF text[1] \in pattern THEN 1 ELSE 0)
    ELSE LET half == Len(text) \div 2
         IN  CountIn(SubSeq(text, 1, half), pattern)
             + CountIn(SubSeq(text, half + 1, Len(text)), pattern)

\* re.match(pattern, stripped) is not None
ReMatch(pattern, stripped) == stripped # <<>> /\ Head(stripped) \in pattern

\* the body of the loop "for line in lines": what one line adds to
\* code_like_lines
LineHits(line, tt) ==
    LET stripped == Strip(line)
    IN  IF stripped = <<>> THEN 0
        ELSE (IF ReMatch(tt.line_start_pattern, stripped) THEN 1 ELSE 0)
           + (IF ReMatch(tt.call_like_pattern, stripped) THEN 1 ELSE 0)
           + (IF ReMatch(tt.comment_pattern, stripped) THEN 1 ELSE 0)

\* the loop "for line in lines": the number code_like_lines, summed over
\* the two halves of the list
RECURSIVE CodeLikeLines(_, _)
CodeLikeLines(lines, tt) ==
    IF lines = <<>> THEN 0
    ELSE IF Len(lines) = 1 THEN LineHits(lines[1], tt)
    ELSE LET half == Len(lines) \div 2
         IN  CodeLikeLines(SubSeq(lines, 1, half), tt)
             + CodeLikeLines(SubSeq(lines, half + 1, Len(lines)), tt)

\* a variant whose threshold counts only the lines that are not blank
IsCodeOverNonBlankLines(text, tt) ==
    LET lines == SplitLines(text)
        non_blank == SelectSeq(lines, LAMBDA line : Strip(line) # <<>>)
        score == CountIn(text, tt.keyword_pattern) * tt.keyword_weight
                 + CountIn(text, tt.symbol_pattern) * tt.symbol_weight
                 + CodeLikeLines(lines, tt) * tt.line_weight
        threshold == Max(tt.min_score,
                         Len(non_blank) \div Max(1, tt.line_ratio_divisor))
    IN  IF Len(lines) = 0 THEN FALSE ELSE score >= threshold

_is_probably_code(text, tt) ==
    LET lines == SplitLines(text)
        keyword_hits == CountIn(text, tt.keyword_pattern)
        symbol_hits == CountIn(text, tt.symbol_pattern)
        code_like_lines == CodeLikeLines(lines, tt)
        score == keyword_hits * tt.keyword_weight
                 + symbol_hits * tt.symbol_weight
                 + code_like_lines * tt.line_weight
        ratio_divisor == Max(1, tt.line_ratio_divisor)
        threshold == Max(tt.min_score, Len(lines) \div ratio_divisor)
    IN  IF Len(lines) = 0 THEN FALSE ELSE score >= threshold

(***************************************************************************)
(* HierarchicalSplitter (hierarchical_splitter.py).                        *)
(***************************************************************************)
\* how many characters at the start of s are members of class
RECURSIVE LeadingCount(_, _)
LeadingCount(s, class) ==
    IF s # <<>> /\ Head(s) \in class
    THEN 1 + LeadingCount(Tail(s), class)
    ELSE 0

_is_heading(line) ==
    LET stripped == Strip(line)
        hashes == LeadingCount(stripped, {"#"})
        digits == LeadingCount(stripped, HeadingNumerals)
        digits2 == LeadingCount(Tail(stripped), HeadingNumerals)
    IN  IF stripped = <<>> THEN FALSE
        \* ^#{1,6}\s+
        ELSE IF /\ hashes >= 1
                /\ hashes <= 6
                /\ Len(stripped) > hashes
                /\ stripped[hashes + 1] \in Whitespace
             THEN TRUE
        \* ^DI[numerals]+[chapter marks]
        ELSE IF /\ Head(stripped) = "CJK_DI"
                /\ digits2 >= 1
                /\ Len(stripped) > 1 + digits2
                /\ stripped[digits2 + 2]
                       \in {"CJK_ZHANG", "CJK_JIE", "CJK_PIAN"}
             THEN TRUE
        \* ^[numerals]+[ideographic comma, full stop, fullwidth full stop]\s*
        ELSE IF /\ digits >= 1
                /\ Len(stripped) > digits
                /\ stripped[digits + 1]
                       \in {"IDEO_COMMA", ".", "FULLWIDTH_FULL_STOP"}
             THEN TRUE
        \* ^FULLWIDTH_LPAREN[numerals]+FULLWIDTH_RPAREN
        ELSE IF /\ Head(stripped) = "FULLWIDTH_LPAREN"
                /\ digits2 >= 1
                /\ Len(stripped) > 1 + digits2
                /\ stripped[digits2 + 2] = "FULLWIDTH_RPAREN"
             THEN TRUE
        ELSE FALSE

\* [line.rstrip() joined by "\n"].strip(): what a flush appends to sections
FlushSection(buffer_lines) == Strip(Join(<<NL>>, buffer_lines))

\* a variant in which a heading line does not end the buffer before it
RECURSIVE HeadingLoopNoFlush(_, _)
HeadingLoopNoFlush(st, lines) ==
    IF lines = <<>> THEN st
    ELSE HeadingLoopNoFlush(
             [st EXCEPT !.buffer_lines = Append(@, RStrip(Head(lines)))],
             Tail(lines))

\* the loop "for line in lines" of _split_by_heading:
\* st = [sections, buffer_lines]
RECURSIVE HeadingLoop(_, _)
HeadingLoop(st, lines) ==
    IF lines = <<>> THEN st
    ELSE LET line == Head(lines)
             flushed ==
                 IF _is_heading(line) /\ Len(st.buffer_lines) > 0
                 THEN [sections |->
                           Append(st.sections, FlushSection(st.buffer_lines)),
                       buffer_lines |-> <<>>]
                 ELSE st
             next == [flushed EXCEPT
                         !.buffer_lines = Append(@, RStrip(line))]
         IN  HeadingLoop(next, Tail(lines))

_split_by_heading(lines) ==
    LET st == HeadingLoop([sections |-> <<>>, buffer_lines |-> <<>>], lines)
        sections == IF Len(st.buffer_lines) > 0
                    THEN Append(st.sections, FlushSection(st.buffer_lines))
                    ELSE st.sections
    IN  SelectSeq(sections, LAMBDA section : section # <<>>)

\* where the whitespace run that starts at index i ends (i - 1 when empty)
RECURSIVE RunEnd(_, _)
RunEnd(text, i) ==
    IF i <= Len(text) /\ text[i] \in Whitespace THEN RunEnd(text, i + 1) ELSE i - 1

\* the end of the match of \n\s*\n that starts at index i (0 when there is
\* none): \s* is greedy, so the match ends at the last line end of the
\* whitespace run after text[i]
BlankMatchEnd(text, i) ==
    IF text[i] # NL THEN 0
    ELSE LET ends == {k \in (i + 1)..RunEnd(text, i + 1) : text[k] = NL}
         IN  IF ends = {} THEN 0
             ELSE CHOOSE k \in ends : \A m \in ends : m <= k

\* re.split(r"\n\s*\n", text)
RECURSIVE ReSplitBlankFrom(_, _, _)
ReSplitBlankFrom(text, i, cur) ==
    IF i > Len(text) THEN <<cur>>
    ELSE LET e == BlankMatchEnd(text, i)
         IN  IF e > 0
             THEN <<cur>> \o ReSplitBlankFrom(text, e + 1, <<>>)
             ELSE ReSplitBlankFrom(text, i + 1, Append(cur, text[i]))

ReSplitBlank(text) == ReSplitBlankFrom(text, 1, <<>>)

_split_by_paragraph(text) ==
    LET parts == ReSplitBlank(text)
        paragraphs == [i \in 1..Len(parts) |-> Strip(parts[i])]
    IN  SelectSeq(paragraphs, LAMBDA paragraph : paragraph # <<>>)

\* a variant that asks for more than one heading line
HasSeveralHeadings(lines) ==
    \E i, j \in 1..Len(lines) :
        i < j /\ _is_heading(lines[i]) /\ _is_heading(lines[j])

\* any(self._is_heading(line) for line in lines)
HasHeading(lines) == \E i \in 1..Len(lines) : _is_heading(lines[i])

\* HierarchicalSplitter.split
HierarchicalSplit(text) ==
    LET lines == SplitLines(text)
    IN  IF HasHeading(lines)
        THEN _split_by_heading(lines)
        ELSE _split_by_paragraph(text)

(***************************************************************************)
(* AstGrepSplitter: offsets and ranges (ast_grep_splitter.py).             *)
(* A range is a pair <<start, end>> of character offsets.                  *)
(***************************************************************************)
\* text.splitlines(keepends=True)
RECURSIVE KeepEndsFrom(_, _, _)
KeepEndsFrom(text, i, cur) ==
    IF i > Len(text)
    THEN (IF cur = <<>> THEN <<>> ELSE <<cur>>)
    ELSE IF text[i] = NL
         THEN <<Append(cur, NL)>> \o KeepEndsFrom(text, i + 1, <<>>)
         ELSE KeepEndsFrom(text, i + 1, Append(cur, text[i]))

\* the loop "for line in text.splitlines(keepends=True)"
RECURSIVE OffsetsLoop(_, _)
OffsetsLoop(lines, current_index) ==
    IF lines = <<>> THEN <<>>
    ELSE <<current_index>>
             \o OffsetsLoop(Tail(lines), current_index + Len(Head(lines)))

_build_line_offsets(text) ==
    LET offsets == OffsetsLoop(KeepEndsFrom(text, 1, <<>>), 0)
    IN  IF text # <<>> /\ text[Len(text)] = NL
        THEN offsets
        ELSE Append(offsets, Len(text))

\* offsets is a Python list (0-based): offsets[line_index] is offsets[line_index + 1] here
_to_index(offsets, location) ==
    LET line_index == Max(location.line - 1, 0)
    IN  IF line_index >= Len(offsets)
        THEN Len(offsets)
        ELSE offsets[line_index + 1] + location.column

\* sorted(ranges, key=lambda item: item[0]): stable, by start only
RECURSIVE InsertByStart(_, _)
InsertByStart(sorted, item) ==
    IF sorted = <<>> THEN <<item>>
    ELSE IF Head(sorted)[1] <= item[1]
         THEN <<Head(sorted)>> \o InsertByStart(Tail(sorted), item)
         ELSE <<item>> \o sorted

RECURSIVE SortByStart(_)
SortByStart(ranges) ==
    IF ranges = <<>> THEN <<>>
    ELSE InsertByStart(SortByStart(SubSeq(ranges, 1, Len(ranges) - 1)),
                       ranges[Len(ranges)])

\* a variant that merges only on overlap, "if start < last_end"
RECURSIVE MergeRangesLoopStrict(_, _)
MergeRangesLoopStrict(merged, sorted_ranges) ==
    IF sorted_ranges = <<>> THEN merged
    ELSE LET start == Head(sorted_ranges)[1]
             end == Head(sorted_ranges)[2]
             last == merged[Len(merged)]
             next ==
                 IF Len(merged) = 0 THEN <<Head(sorted_ranges)>>
                 ELSE IF start < last[2]
                      THEN [merged EXCEPT
                               ![Len(merged)] = <<last[1], Max(last[2], end)>>]
                      ELSE Append(merged, Head(sorted_ranges))
         IN  MergeRangesLoopStrict(next, Tail(sorted_ranges))

\* the loop "for start, end in sorted_ranges"
RECURSIVE MergeRangesLoop(_, _)
MergeRangesLoop(merged, sorted_ranges) ==
    IF sorted_ranges = <<>> THEN merged
    ELSE LET start == Head(sorted_ranges)[1]
             end == Head(sorted_ranges)[2]
             last == merged[Len(merged)]
             next ==
                 IF Len(merged) = 0 THEN <<Head(sorted_ranges)>>
                 ELSE IF start <= last[2]
                      THEN [merged EXCEPT
                               ![Len(merged)] = <<last[1], Max(last[2], end)>>]
                      ELSE Append(merged, Head(sorted_ranges))
         IN  MergeRangesLoop(next, Tail(sorted_ranges))

\* a variant that compares each start with the end of the range just before
\* it in sorted order, not with the running merged end
RECURSIVE MergePreviousEndLoop(_, _, _)
MergePreviousEndLoop(merged, sorted_ranges, i) ==
    IF i > Len(sorted_ranges) THEN merged
    ELSE LET start == sorted_ranges[i][1]
             end == sorted_ranges[i][2]
             last == merged[Len(merged)]
             next ==
                 IF i = 1 THEN <<sorted_ranges[i]>>
                 ELSE IF start <= sorted_ranges[i - 1][2]
                      THEN [merged EXCEPT
                               ![Len(merged)] = <<last[1], Max(last[2], end)>>]
                      ELSE Append(merged, sorted_ranges[i])
         IN  MergePreviousEndLoop(next, sorted_ranges, i + 1)

MergeByPreviousEnd(ranges) == MergePreviousEndLoop(<<>>, SortByStart(ranges), 1)

_merge_ranges(ranges) == MergeRangesLoop(<<>>, SortByStart(ranges))

\* [text[start:end] for start, end in merged if end > start]
RECURSIVE SliceRanges(_, _)
SliceRanges(text, merged) ==
    IF merged = <<>> THEN <<>>
    ELSE (IF Head(merged)[2] > Head(merged)[1]
          THEN <<PySlice(text, Head(merged)[1], Head(merged)[2])>>
          ELSE <<>>)
         \o SliceRanges(text, Tail(merged))

\* AstGrepSplitter.split after _collect_matches has returned "matches"
SplitFromMatches(text, matches) ==
    IF Len(matches) = 0 THEN <<>>
    ELSE SliceRanges(text, _merge_ranges(matches))

\* the loop "for item in raw_matches": the ranges one tool answer adds
RECURSIVE RangesOfItems(_, _)
RangesOfItems(offsets, raw_matches) ==
    IF raw_matches = <<>> THEN <<>>
    ELSE LET item == Head(raw_matches)
             start_index == _to_index(offsets, item.start)
             end_index == _to_index(offsets, item.end)
         IN  (IF end_index > start_index
              THEN << <<start_index, end_index>> >>
              ELSE <<>>)
             \o RangesOfItems(offsets, Tail(raw_matches))

(***************************************************************************)
(* AstGrepSplitter: the external tool (ast_grep_splitter.py).              *)
(* An exception is a record: its type, what its message says and which     *)
(* captured value the message carries.                                     *)
(***************************************************************************)
NoException == [type |-> "None", message |-> "", carries |-> "nothing"]

\* raise RuntimeError("..." + self._config.command) from exc
CommandNotFound ==
    [type |-> "RuntimeError", message |-> "command not found: ",
     carries |-> "command"]

\* raise RuntimeError("..." + result.stderr.strip())
ExecutionFailed ==
    [type |-> "RuntimeError", message |-> "execution failed: ",
     carries |-> "stderr"]

\* json.loads(result.stdout) on text that is no JSON
JsonDecodeError ==
    [type |-> "JSONDecodeError", message |-> "Expecting value",
     carries |-> "position in stdout"]

\* data.get on a JSON value that is no object
NoGetAttribute ==
    [type |-> "AttributeError", message |-> "object has no attribute 'get'",
     carries |-> "nothing"]

\* list(data.get("matches", [])) on a value that is not iterable
NotIterable ==
    [type |-> "TypeError", message |-> "object is not iterable",
     carries |-> "nothing"]

\* an OSError other than FileNotFoundError, e.g. PermissionError, ENOSPC
OsError == [type |-> "OSError", message |-> "", carries |-> "nothing"]

\* temp_file.write(text) on text utf-8 cannot encode (a lone surrogate)
EncodeError ==
    [type |-> "UnicodeEncodeError", message |-> "surrogates not allowed",
     carries |-> "nothing"]

\* what tempfile.NamedTemporaryFile(..., delete=False) can do
CreateOutcomes == {"ok", "FileNotFoundError", "OSError"}

\* what temp_file.write(text) and the close at the end of the with block
\* can do
WriteOutcomes == {"ok", "UnicodeEncodeError", "OSError on close"}

\* what subprocess.run(command, check=False, ...) can do
RunOutcomes == {"FileNotFoundError", "nonzero", "zero"}

\* the shapes of the tool's standard output
JsonShapes ==
    {"unparsable", "array", "object without matches",
     "object with matches number", "object with matches array"}

\* what os.remove(temp_path) can do
RemoveOutcomes == {"ok", "OSError"}

\* the locations {"line": int, "column": int} a tool answer may name
ToolLocations == [line : 1..2, column : 0..1]

\* the items {"range": {"start": ..., "end": ...}} of a tool answer
ToolMatches == [start : ToolLocations, end : ToolLocations]

\* the "matches" arrays of a tool answer, of at most n items
ToolMatchLists(n) == UNION {[1..k -> ToolMatches] : k \in 0..n}

\* the exception the try block of _run_ast_grep leaves pending when the
\* temporary file cannot be created; "except FileNotFoundError" rewrites it
CreateException(create) ==
    IF create = "FileNotFoundError" THEN CommandNotFound
    ELSE IF create = "OSError" THEN OsError
    ELSE NoException

\* the exception pending after the with block
WriteException(write) ==
    IF write = "UnicodeEncodeError" THEN EncodeError
    ELSE IF write = "OSError on close" THEN OsError
    ELSE NoException

\* whether "temp_path = temp_file.name" was reached
PathAssigned(write) == write # "UnicodeEncodeError"

\* a variant without "except FileNotFoundError": the exception of
\* subprocess.run leaves as it is
RunExceptionUncaught(run, json) ==
    IF run = "FileNotFoundError"
    THEN [type |-> "FileNotFoundError", message |-> "No such file or directory: ",
          carries |-> "filename"]
    ELSE IF run = "nonzero" THEN ExecutionFailed
    ELSE IF json = "unparsable" THEN JsonDecodeError
    ELSE NoException

\* the exception pending after subprocess.run, the return code test and
\* json.loads
RunException(run, json) ==
    IF run = "FileNotFoundError" THEN CommandNotFound
    ELSE IF run = "nonzero" THEN ExecutionFailed
    ELSE IF json = "unparsable" THEN JsonDecodeError
    ELSE NoException

\* what _collect_matches does with the value _run_ast_grep returned:
\* the exception it raises and the ranges it adds
CollectException(json) ==
    IF json = "array" THEN NoGetAttribute
    ELSE IF json = "object with matches number" THEN NotIterable
    ELSE NoException

CollectRanges(offsets, json, raw_matches) ==
    IF json = "object with matches array"
    THEN RangesOfItems(offsets, raw_matches)
    ELSE <<>>

\* one run of _run_ast_grep as the environment lets it go: the outcome of
\* each step it reaches ("unreached" for the steps it does not reach)
Behaviour(create, write, run, json, raw_matches, remove) ==
    [create |-> create, write |-> write, run |-> run, json |-> json,
     raw_matches |-> raw_matches, remove |-> remove]

\* the behaviours whose tool answers name at most n matches
ToolBehaviours(n) ==
    {Behaviour(c, "unreached", "unreached", "unreached", <<>>, "unreached") :
        c \in CreateOutcomes \ {"ok"}}
    \cup {Behaviour("ok", "UnicodeEncodeError", "unreached", "unreached", <<>>,
                    "unreached")}
    \cup {Behaviour("ok", "OSError on close", "unreached", "unreached", <<>>, r) :
            r \in RemoveOutcomes}
    \cup {Behaviour("ok", "ok", run, "unreached", <<>>, r) :
            run \in RunOutcomes \ {"zero"}, r \in RemoveOutcomes}
    \cup {Behaviour("ok", "ok", "zero", j, <<>>, r) :
            j \in JsonShapes \ {"object with matches array"},
            r \in RemoveOutcomes}
    \cup {Behaviour("ok", "ok", "zero", "object with matches array", m, r) :
            m \in ToolMatchLists(n), r \in RemoveOutcomes}

\* _run_ast_grep under behaviour b: the exception it raises (NoException
\* when it returns), whether it created a file, whether that file is left
\* behind, and whether it started the tool
_run_ast_grep(b) ==
    LET exception ==
            IF b.create # "ok" THEN CreateException(b.create)
            ELSE IF b.write # "ok" THEN WriteException(b.write)
            ELSE RunException(b.run, b.json)
        file_created == b.create = "ok"
        \* finally: if temp_path != "": os.remove(temp_path), OSError passed over
        removed == file_created /\ PathAssigned(b.write) /\ b.remove = "ok"
    IN  [exception |-> exception,
         file_created |-> file_created,
         file_left |-> file_created /\ ~removed,
         launched |-> b.create = "ok" /\ b.write = "ok"]

(***************************************************************************)
(* The state.                                                              *)
(***************************************************************************)
VARIABLES
    text,           \* the argument of segment_text / AstGrepSplitter.split
    config,         \* the AgentConfig the segmenter was built with
    pc,             \* where the call is
    is_code,        \* what _is_probably_code returned
    invoked,        \* the splitters called so far
    returned,       \* <<splitter, n>>: that splitter returned n fragments
    used,           \* the splitter whose fragments are assembled
    fragments,      \* the fragments that splitter returned
    chunks,         \* the list handed to _post_process_chunks
    processed,      \* "processed" before the overlap pass
    result,         \* the list the call returned
    error,          \* the exception the call raised
    pattern_index,  \* the pattern the loop of _collect_matches is at
    matches,        \* "matches" of _collect_matches
    files,          \* the temporary files that exist
    created,        \* how many temporary files the call has created
    launches,       \* the patterns the tool was started with, in order
    step,           \* where _run_ast_grep is
    temp_path,      \* "temp_path" of _run_ast_grep (0 for "")
    pending         \* what the try block of _run_ast_grep left

vars ==
    <<text, config, pc, is_code, invoked, returned, used, fragments, chunks,
      processed, result, error, pattern_index, matches, files, created,
      launches, step, temp_path, pending>>

assembler_vars ==
    <<is_code, invoked, returned, used, fragments, chunks, processed>>

tool_vars == <<pattern_index, matches, files, created, launches>>

run_vars == <<step, temp_path, pending>>

\* pending: the exception the try block raised, how subprocess.run ended,
\* and the shape and the matches of the standard output it captured
NothingPending ==
    [exception |-> NoException, run |-> "unreached", json |-> "unreached",
     raw_matches |-> <<>>]

(***************************************************************************)
(* The configurations.                                                     *)
(***************************************************************************)
\* a pattern string, named by its place in the configured list
PatternName(i) == <<"pattern", i>>

\* a TextTypeConfig: the five patterns as character classes
TextType ==
    [min_score |-> 3, line_ratio_divisor |-> 1,
     keyword_weight |-> 1, symbol_weight |-> 1, line_weight |-> 1,
     keyword_pattern |-> {"k"}, symbol_pattern |-> {";"},
     line_start_pattern |-> {"k"}, call_like_pattern |-> {";"},
     comment_pattern |-> {"."}]

AstGrep(enable, n) ==
    [enable |-> enable, command |-> "sg", language |-> "python",
     patterns |-> [i \in 1..n |-> PatternName(i)]]

\* the configurations _validate_config lets through: max_chunk_chars > 0,
\* 0 <= overlap_chars < max_chunk_chars, a non-empty pattern list
Configs ==
    {[max_chunk_chars |-> m, overlap_chars |-> o, enable_overlap |-> e,
      ast_grep |-> AstGrep(a, 1), text_type |-> TextType] :
        m \in 1..MaxChunk, o \in 0..(MaxChunk - 1), e \in BOOLEAN, a \in BOOLEAN}

ValidConfigs == {c \in Configs : c.overlap_chars < c.max_chunk_chars}

Texts == UNION {[1..k -> Alphabet] : k \in 0..MaxLen}

(***************************************************************************)
(* TextSegmenter.segment_text (segmenter.py).                              *)
(***************************************************************************)
Init ==
    /\ text \in Texts
    /\ config \in ValidConfigs
    /\ pc = "start"
    /\ is_code = FALSE
    /\ invoked = {}
    /\ returned = {}
    /\ used = "none"
    /\ fragments = <<>>
    /\ chunks = <<>>
    /\ processed = <<>>
    /\ result = <<>>
    /\ error = NoException
    /\ pattern_index = 1
    /\ matches = <<>>
    /\ files = {}
    /\ created = 0
    /\ launches = <<>>
    /\ step = "idle"
    /\ temp_path = 0
    /\ pending = NothingPending

\* if len(semantic_chunks) > 0: the preferred splitter's fragments are
\* assembled; otherwise segment_text goes on to _split_sentences
UseSemanticChunks(semantic_chunks) == Len(semantic_chunks) > 0

\* a variant in which segment_text goes on to _split_sentences after an
\* exception of the structural splitter
FallsBackOnError == "sentences"

\* where an exception of self._ast_grep_splitter.split(text) takes
\* segment_text: no try statement encloses the call, so out of it
Unhandled == "raised"

\* a variant that does not test ast_grep.enable
RouteWithoutEnableTest(code, config_) ==
    IF code THEN "structural" ELSE "hierarchical"

\* where segment_text goes once the text is classified
Route(code, config_) ==
    IF code
    THEN (IF config_.ast_grep.enable THEN "structural" ELSE "sentences")
    ELSE "hierarchical"

\* if self._is_probably_code(text): ... else: ...
Classify ==
    /\ pc = "start"
    /\ is_code' = _is_probably_code(text, config.text_type)
    /\ pc' = Route(is_code', config)
    /\ UNCHANGED <<text, config, invoked, returned, used, fragments, chunks,
                   processed, result, error>>
    /\ UNCHANGED tool_vars
    /\ UNCHANGED run_vars

\* one turn of "for pattern in self._config.patterns" inside
\* self._ast_grep_splitter.split(text); an exception leaves segment_text
RunPattern ==
    /\ pc = "structural"
    /\ pattern_index <= Len(config.ast_grep.patterns)
    /\ \E b \in ToolBehaviours(2) :
        LET r == _run_ast_grep(b)
            raised == IF r.exception # NoException
                      THEN r.exception
                      ELSE CollectException(b.json)
        IN  /\ created' = IF r.file_created THEN created + 1 ELSE created
            /\ files' = IF r.file_left THEN files \cup {created + 1} ELSE files
            /\ launches' = IF r.launched
                           THEN Append(launches, pattern_index)
                           ELSE launches
            /\ IF raised # NoException
               THEN /\ error' = raised
                    /\ pc' = Unhandled
                    /\ UNCHANGED <<matches, pattern_index>>
               ELSE /\ matches' = matches \o CollectRanges(
                                      _build_line_offsets(text), b.json,
                                      b.raw_matches)
                    /\ pattern_index' = pattern_index + 1
                    /\ UNCHANGED <<error, pc>>
    /\ invoked' = invoked \cup {"structural"}
    /\ UNCHANGED <<text, config, is_code, returned, used, fragments, chunks,
                   processed, result>>
    /\ UNCHANGED run_vars

\* semantic_chunks = self._ast_grep_splitter.split(text) has returned
StructuralReturn ==
    /\ pc = "structural"
    /\ pattern_index > Len(config.ast_grep.patterns)
    /\ LET semantic_chunks == SplitFromMatches(text, matches)
       IN  /\ returned' = returned \cup {<<"structural", Len(semantic_chunks)>>}
           /\ IF UseSemanticChunks(semantic_chunks)
              THEN /\ fragments' = semantic_chunks
                   /\ chunks' = semantic_chunks
                   /\ used' = "structural"
                   /\ pc' = "post"
              ELSE /\ pc' = "sentences"
                   /\ UNCHANGED <<fragments, chunks, used>>
    /\ invoked' = invoked \cup {"structural"}
    \* "matches" is a local of the call that has returned
    /\ matches' = <<>>
    /\ UNCHANGED <<text, config, is_code, processed, result, error>>
    /\ UNCHANGED <<pattern_index, files, created, launches>>
    /\ UNCHANGED run_vars

\* semantic_chunks = self._hierarchical_splitter.split(text)
Hierarchical ==
    /\ pc = "hierarchical"
    /\ LET semantic_chunks == HierarchicalSplit(text)
       IN  /\ returned' = returned \cup {<<"hierarchical", Len(semantic_chunks)>>}
           /\ IF UseSemanticChunks(semantic_chunks)
              THEN /\ fragments' = semantic_chunks
                   /\ chunks' = semantic_chunks
                   /\ used' = "hierarchical"
                   /\ pc' = "post"
              ELSE /\ pc' = "sentences"
                   /\ UNCHANGED <<fragments, chunks, used>>
    /\ invoked' = invoked \cup {"hierarchical"}
    /\ UNCHANGED <<text, config, is_code, processed, result, error>>
    /\ UNCHANGED tool_vars
    /\ UNCHANGED run_vars

\* sentences = self._split_sentences(text), then the primary pass
Sentences ==
    /\ pc = "sentences"
    /\ fragments' = _split_sentences(text)
    /\ chunks' = MergeSentences(fragments', config.max_chunk_chars)
    /\ used' = "sentence"
    /\ invoked' = invoked \cup {"sentence"}
    /\ returned' = returned \cup {<<"sentence", Len(fragments')>>}
    /\ pc' = "post"
    /\ UNCHANGED <<text, config, is_code, processed, result, error>>
    /\ UNCHANGED tool_vars
    /\ UNCHANGED run_vars

\* return self._post_process_chunks(...)
PostProcess ==
    /\ pc = "post"
    /\ processed' = SplitOversized(chunks, config.max_chunk_chars)
    /\ result' = _post_process_chunks(chunks, config)
    /\ pc' = "done"
    /\ UNCHANGED <<text, config, is_code, invoked, returned, used, fragments,
                   chunks, error>>
    /\ UNCHANGED tool_vars
    /\ UNCHANGED run_vars

Next ==
    \/ Classify
    \/ RunPattern
    \/ StructuralReturn
    \/ Hierarchical
    \/ Sentences
    \/ PostProcess

Spec == Init /\ [][Next]_vars

(***************************************************************************)
(* AstGrepSplitter.split, step by step (ast_grep_splitter.py).             *)
(* A temporary file is named by the number of its creation: every          *)
(* NamedTemporaryFile call makes a file with a new name.                   *)
(***************************************************************************)
ToolAlphabet == {"a", NL}

ToolTexts == UNION {[1..k -> ToolAlphabet] : k \in 0..2}

ToolConfigs ==
    {[max_chunk_chars |-> 1, overlap_chars |-> 0, enable_overlap |-> FALSE,
      ast_grep |-> AstGrep(TRUE, n), text_type |-> TextType] :
        n \in 1..MaxPatterns}

InitTool ==
    /\ text \in ToolTexts
    /\ config \in ToolConfigs
    /\ pc = "split"
    /\ is_code = FALSE
    /\ invoked = {}
    /\ returned = {}
    /\ used = "none"
    /\ fragments = <<>>
    /\ chunks = <<>>
    /\ processed = <<>>
    /\ result = <<>>
    /\ error = NoException
    /\ pattern_index = 1
    /\ matches = <<>>
    /\ files = {}
    /\ created = 0
    /\ launches = <<>>
    /\ step = "idle"
    /\ temp_path = 0
    /\ pending = NothingPending

\* temp_path = ""; with tempfile.NamedTemporaryFile(..., delete=False) as temp_file
CreateTemp ==
    /\ pc = "split"
    /\ step = "idle"
    /\ pattern_index <= Len(config.ast_grep.patterns)
    /\ temp_path' = 0
    /\ \E c \in CreateOutcomes :
        IF c = "ok"
        THEN /\ created' = created + 1
             /\ files' = files \cup {created + 1}
             /\ step' = "opened"
             /\ pending' = NothingPending
        ELSE /\ pending' = [NothingPending EXCEPT
                               !.exception = CreateException(c)]
             /\ step' = "finally"
             /\ UNCHANGED <<created, files>>
    /\ UNCHANGED <<text, config, pc, result, error, pattern_index, matches,
                   launches>>
    /\ UNCHANGED assembler_vars

\* temp_file.write(text); temp_path = temp_file.name; the file is closed
WriteTemp ==
    /\ pc = "split"
    /\ step = "opened"
    /\ \E w \in WriteOutcomes :
        /\ temp_path' = IF PathAssigned(w) THEN created ELSE temp_path
        /\ IF w = "ok"
           THEN step' = "ready" /\ UNCHANGED pending
           ELSE /\ pending' = [NothingPending EXCEPT
                                  !.exception = WriteException(w)]
                /\ step' = "finally"
    /\ UNCHANGED <<text, config, pc, result, error>>
    /\ UNCHANGED tool_vars
    /\ UNCHANGED assembler_vars

\* subprocess.run(command, ...), the return code test, json.loads
RunTool ==
    /\ pc = "split"
    /\ step = "ready"
    /\ launches' = Append(launches, pattern_index)
    /\ \E b \in ToolBehaviours(1) :
        /\ b.run # "unreached"
        /\ b.remove = "ok"
        /\ pending' = [exception |-> RunException(b.run, b.json),
                       run |-> b.run, json |-> b.json,
                       raw_matches |-> b.raw_matches]
    /\ step' = "finally"
    /\ UNCHANGED <<text, config, pc, result, error, pattern_index, matches,
                   files, created, temp_path>>
    /\ UNCHANGED assembler_vars

\* finally: if temp_path != "": try os.remove(temp_path) except OSError: pass;
\* then the pending exception leaves _run_ast_grep, _collect_matches and
\* split, none of which handles it
Finally ==
    /\ pc = "split"
    /\ step = "finally"
    /\ \E r \in (IF temp_path = 0 THEN {"ok"} ELSE RemoveOutcomes) :
        files' = IF temp_path # 0 /\ r = "ok" THEN files \ {temp_path} ELSE files
    /\ IF pending.exception # NoException
       THEN /\ error' = pending.exception
            /\ pc' = "raised"
            /\ step' = "idle"
       ELSE /\ step' = "returned"
            /\ UNCHANGED <<error, pc>>
    /\ UNCHANGED <<text, config, result, pattern_index, matches, created,
                   launches, temp_path, pending>>
    /\ UNCHANGED assembler_vars

\* raw_matches = list(data.get("matches", [])) and the loop over it
CollectMatches ==
    /\ pc = "split"
    /\ step = "returned"
    /\ IF CollectException(pending.json) # NoException
       THEN /\ error' = CollectException(pending.json)
            /\ pc' = "raised"
            /\ UNCHANGED <<matches, pattern_index>>
       ELSE /\ matches' = matches \o CollectRanges(_build_line_offsets(text),
                                                   pending.json,
                                                   pending.raw_matches)
            /\ pattern_index' = pattern_index + 1
            /\ UNCHANGED <<error, pc>>
    /\ step' = "idle"
    /\ UNCHANGED <<text, config, result, files, created, launches, temp_path,
                   pending>>
    /\ UNCHANGED assembler_vars

\* the patterns are used up: split merges the ranges and returns the slices
SplitReturn ==
    /\ pc = "split"
    /\ step = "idle"
    /\ pattern_index > Len(config.ast_grep.patterns)
    /\ result' = SplitFromMatches(text, matches)
    /\ pc' = "done"
    /\ UNCHANGED <<text, config, error>>
    /\ UNCHANGED tool_vars
    /\ UNCHANGED run_vars
    /\ UNCHANGED assembler_vars

NextTool ==
    \/ CreateTemp
    \/ WriteTemp
    \/ RunTool
    \/ Finally
    \/ CollectMatches
    \/ SplitReturn

SpecTool == InitTool /\ [][NextTool]_vars

(***************************************************************************)
(* TextSegmenter._split_sentences called on its own (segmenter.py).        *)
(***************************************************************************)
SentenceAlphabet == {"a", " ", NL, ".", "?", "IDEO_FULL_STOP"}

SentenceTexts == UNION {[1..k -> SentenceAlphabet] : k \in 0..MaxLen}

InitSentences ==
    /\ text \in SentenceTexts
    /\ config \in ToolConfigs
    /\ pc = "split_sentences"
    /\ is_code = FALSE
    /\ invoked = {}
    /\ returned = {}
    /\ used = "none"
    /\ fragments = <<>>
    /\ chunks = <<>>
    /\ processed = <<>>
    /\ result = <<>>
    /\ error = NoException
    /\ pattern_index = 1
    /\ matches = <<>>
    /\ files = {}
    /\ created = 0
    /\ launches = <<>>
    /\ step = "idle"
    /\ temp_path = 0
    /\ pending = NothingPending

\* return sentences
SplitSentences ==
    /\ pc = "split_sentences"
    /\ result' = _split_sentences(text)
    /\ pc' = "done"
    /\ UNCHANGED <<text, config, error>>
    /\ UNCHANGED tool_vars
    /\ UNCHANGED run_vars
    /\ UNCHANGED assembler_vars

NextSentences == SplitSentences

SpecSentences == InitSentences /\ [][NextSentences]_vars

(***************************************************************************)
(* Properties of TextSegmenter.segment_text, checked under Spec.           *)
(***************************************************************************)
\* C1: for every text and every validated configuration, on every splitter
\* path, each chunk segment_text returns has a pre-overlap length of at most
\* max_chunk_chars; when the overlap pass runs, every returned chunk has
\* length at most max_chunk_chars + overlap_chars (and without it, at most
\* max_chunk_chars).
ChunkLengthBound ==
    pc = "done" =>
        /\ \A i \in 1..Len(processed) :
              Len(processed[i]) <= config.max_chunk_chars
        /\ \A i \in 1..Len(result) :
              Len(result[i]) <= config.max_chunk_chars + config.overlap_chars
        /\ ~(config.enable_overlap /\ config.overlap_chars > 0) =>
              \A i \in 1..Len(result) :
                  Len(result[i]) <= config.max_chunk_chars

\* a call that returned, after the overlap pass, a chunk longer than
\* max_chunk_chars: the bound max_chunk_chars + overlap_chars is met
ChunkLengthBoundReached ==
    /\ pc = "done"
    /\ config.enable_overlap
    /\ config.overlap_chars > 0
    /\ \E i \in 1..Len(result) :
          /\ Len(result[i]) > config.max_chunk_chars
          /\ Len(result[i]) = config.max_chunk_chars + config.overlap_chars

\* C2: assembly is lossless and keeps the order: the chunks handed to the
\* post-process pass, and the chunks that pass produces before overlap,
\* concatenate to the concatenation of the fragments of the splitter that
\* was used; when the overlap pass does not run the same holds for the
\* returned chunks; on the sentence path that concatenation is the text.
AssemblyLossless ==
    pc = "done" =>
        /\ Concat(chunks) = Concat(fragments)
        /\ Concat(processed) = Concat(fragments)
        /\ ~(config.enable_overlap /\ config.overlap_chars > 0) =>
              Concat(result) = Concat(fragments)
        /\ used = "sentence" => Concat(fragments) = text

\* a call on the sentence path, without overlap, in which the primary pass
\* merged the sentences into fewer chunks
AssemblyMerged ==
    /\ pc = "done"
    /\ used = "sentence"
    /\ ~(config.enable_overlap /\ config.overlap_chars > 0)
    /\ Len(fragments) >= 2
    /\ Len(chunks) < Len(fragments)

FallbackAsymmetry ==
    /\ (error # NoException) <=> (pc = "raised")
    /\ pc = "raised" =>
          /\ is_code
          /\ config.ast_grep.enable
          /\ "structural" \in invoked
          /\ "sentence" \notin invoked
          /\ used = "none"
          /\ result = <<>>
    /\ <<"structural", 0>> \in returned =>
          /\ error = NoException
          /\ pc \in {"sentences", "post", "done"}
          /\ pc \in {"post", "done"} => used = "sentence"

\* a call that started the tool and ended in the tool's failure
FallbackAsymmetryRaised ==
    /\ pc = "raised"
    /\ launches # <<>>
    /\ error = ExecutionFailed
    /\ "sentence" \notin invoked

\* C6: the structural splitter, and so the tool, is invoked only for text
\* classified as code with ast_grep.enable true; the hierarchical splitter
\* only for text classified as natural language; the sentence splitter
\* exactly when the preferred splitter returned no fragments or, on the code
\* path, the structural splitter is disabled; the fragments of exactly one
\* splitter reach the assembly step.
Routing ==
    /\ ("structural" \in invoked \/ launches # <<>> \/ created > 0) =>
          is_code /\ config.ast_grep.enable
    /\ "hierarchical" \in invoked => ~is_code
    /\ "sentence" \in invoked =>
          \/ is_code /\ ~config.ast_grep.enable
          \/ <<"structural", 0>> \in returned
          \/ <<"hierarchical", 0>> \in returned
    /\ pc \in {"done", "raised"} =>
          (("sentence" \in invoked) <=>
              \/ is_code /\ ~config.ast_grep.enable
              \/ <<"structural", 0>> \in returned
              \/ <<"hierarchical", 0>> \in returned)
    /\ pc \in {"post", "done"} =>
          /\ used \in invoked
          /\ <<used, Len(fragments)>> \in returned
          /\ \A s \in invoked \ {used} : returned \cap ({s} \X Nat) = {<<s, 0>>}
          /\ used \in {"structural", "hierarchical"} =>
                fragments # <<>> /\ chunks = fragments

\* a call on code with the structural splitter enabled whose tool answers
\* gave the fragments that were assembled
RoutingStructural ==
    /\ pc = "done"
    /\ is_code
    /\ config.ast_grep.enable
    /\ used = "structural"
    /\ launches # <<>>
    /\ invoked = {"structural"}

(***************************************************************************)
(* Properties of TextSegmenter._split_sentences, checked under             *)
(* SpecSentences.                                                          *)
(***************************************************************************)
\* C3: for every string, _split_sentences returns fragments none of which is
\* empty and whose concatenation in order is the string itself.
SentencesLossless ==
    pc = "done" =>
        /\ Concat(result) = text
        /\ \A i \in 1..Len(result) : result[i] # <<>>

\* a split that returned a terminated sentence and a tail of whitespace
SentencesLosslessTail ==
    /\ pc = "done"
    /\ Len(result) >= 2
    /\ text[Len(text)] \in Whitespace
    /\ \E i \in 1..Len(text) : text[i] \in SentencePunct

(***************************************************************************)
(* Properties of AstGrepSplitter.split, checked under SpecTool.            *)
(***************************************************************************)
\* C7: whenever _run_ast_grep has exited, by returning or by raising at any
\* step, the temporary file it created no longer exists.
TempFileRemoved ==
    step \in {"idle", "returned"} => files = {}

\* C8: within one split call the tool is started in the configured pattern
\* order, once per pattern when no run fails; every run has a temporary file
\* of its own that is deleted before the file of the next pattern is
\* created, so at most one temporary file of the call exists at any time;
\* after a failing run no later pattern is run.
SequentialFreshFiles ==
    /\ \A i \in 1..Len(launches) : launches[i] = i
    /\ Len(launches) <= pattern_index
    /\ pc = "done" => Len(launches) = Len(config.ast_grep.patterns)
    /\ pc = "raised" => pattern_index <= Len(config.ast_grep.patterns)
    /\ step = "opened" => created \in files
    /\ Cardinality(files) <= 1

\* C9: if the configured command cannot be found, split raises a
\* RuntimeError whose message carries the configured command, and returns
\* no fragments.
CommandNotFoundRaises ==
    pending.run = "FileNotFoundError" =>
        /\ pc # "done"
        /\ result = <<>>
        /\ pc = "split" =>
              step = "finally" /\ pending.exception = CommandNotFound
        /\ pc = "raised" =>
              /\ error.type = "RuntimeError"
              /\ error.carries = "command"
              /\ step = "idle"

\* a split call that ended because the command was not found
CommandNotFoundRaised ==
    /\ pc = "raised"
    /\ pending.run = "FileNotFoundError"
    /\ launches # <<>>

\* C10: if the tool exits with a nonzero code, or exits with 0 and an output
\* that is not a JSON object with a matches array, split raises a tool
\* execution error that carries the diagnostic output the tool wrote.
ToolFailureCarriesDiagnostics ==
    (/\ step = "idle"
     /\ \/ pending.run = "nonzero"
        \/ pending.run = "zero" /\ pending.json # "object with matches array")
        => /\ pc = "raised"
           /\ error.type = "RuntimeError"
           /\ error.carries = "stderr"

(***************************************************************************)
(* AstGrepSplitter._merge_ranges called on its own (ast_grep_splitter.py). *)
(***************************************************************************)
\* the variables a call does not use, as they are before any call
Fresh ==
    /\ is_code = FALSE
    /\ invoked = {}
    /\ returned = {}
    /\ used = "none"
    /\ fragments = <<>>
    /\ chunks = <<>>
    /\ processed = <<>>
    /\ result = <<>>
    /\ error = NoException
    /\ pattern_index = 1
    /\ files = {}
    /\ created = 0
    /\ launches = <<>>
    /\ step = "idle"
    /\ temp_path = 0

\* the ranges _collect_matches can append: end_index > start_index
Ranges == {r \in (0..MaxOffset) \X (0..MaxOffset) : r[1] < r[2]}

\* the range list of the worked example of range merging
ExampleRanges == << <<0, 5>>, <<3, 8>>, <<10, 12>> >>

RangeLists == UNION {[1..k -> Ranges] : k \in 0..MaxRanges} \cup {ExampleRanges}

InitRanges ==
    /\ text = <<>>
    /\ config \in {c \in ToolConfigs : Len(c.ast_grep.patterns) = 1}
    /\ pc = "merge_ranges"
    /\ matches \in RangeLists
    /\ pending = NothingPending
    /\ Fresh

\* merged = self._merge_ranges(matches)
MergeRanges ==
    /\ pc = "merge_ranges"
    /\ result' = _merge_ranges(matches)
    /\ pc' = "merged"
    /\ UNCHANGED <<text, config, error, matches, pattern_index, files, created,
                   launches>>
    /\ UNCHANGED run_vars
    /\ UNCHANGED assembler_vars

NextRanges == MergeRanges

SpecRanges == InitRanges /\ [][NextRanges]_vars

\* the character offsets a range list covers
Covered(ranges) ==
    UNION {ranges[i][1]..(ranges[i][2] - 1) : i \in 1..Len(ranges)}

\* C11: for any list of ranges with start < end, _merge_ranges returns
\* ranges with start < end, in strictly increasing order of start, every
\* range ending before the next one starts (neither overlapping nor
\* adjacent), covering exactly the offsets the given ranges cover.
MergeCanonical ==
    pc = "merged" =>
        /\ \A i \in 1..Len(result) : result[i][1] < result[i][2]
        /\ \A i \in 1..(Len(result) - 1) :
              /\ result[i][1] < result[i + 1][1]
              /\ result[i][2] < result[i + 1][1]
        /\ Covered(result) = Covered(matches)

\* a merge of an unsorted list holding two adjacent ranges, which returned
\* fewer ranges than it was given, but more than one
MergeCanonicalMixed ==
    /\ pc = "merged"
    /\ \E i, j \in 1..Len(matches) : i < j /\ matches[i][1] > matches[j][1]
    /\ \E i, j \in 1..Len(matches) : matches[i][2] = matches[j][1]
    /\ Len(result) >= 2
    /\ Len(result) < Len(matches)

\* C12: merging a merged list returns it unchanged,
\* _merge_ranges(_merge_ranges(R)) = _merge_ranges(R); a list that is
\* already sorted, non-overlapping and non-adjacent is returned as it is;
\* and [(0,5),(3,8),(10,12)] merges to [(0,8),(10,12)].
MergeIdempotent ==
    pc = "merged" =>
        /\ _merge_ranges(result) = result
        /\ (\A i \in 1..(Len(matches) - 1) : matches[i][2] < matches[i + 1][1])
              => result = matches
        /\ matches = ExampleRanges => result = << <<0, 8>>, <<10, 12>> >>

\* the worked example, merged
MergeIdempotentExample ==
    /\ pc = "merged"
    /\ matches = ExampleRanges
    /\ Len(result) = 2
    /\ _merge_ranges(result) = result

(***************************************************************************)
(* AstGrepSplitter._to_index called on its own (ast_grep_splitter.py):     *)
(* the two locations of one item of a tool answer.                         *)
(***************************************************************************)
IndexTexts == UNION {[1..k -> ToolAlphabet] : k \in 0..MaxLen}

InitIndex ==
    /\ text \in IndexTexts
    /\ config \in {c \in ToolConfigs : Len(c.ast_grep.patterns) = 1}
    /\ pc = "to_index"
    /\ matches = <<>>
    /\ \E item \in ToolMatches :
          pending = [exception |-> NoException, run |-> "zero",
                     json |-> "object with matches array",
                     raw_matches |-> <<item>>]
    /\ Fresh

\* start_index = self._to_index(offsets, start_data);
\* end_index = self._to_index(offsets, end_data)
ToIndex ==
    /\ pc = "to_index"
    /\ LET offsets == _build_line_offsets(text)
           item == pending.raw_matches[1]
       IN  result' = <<_to_index(offsets, item.start),
                       _to_index(offsets, item.end)>>
    /\ pc' = "indexed"
    /\ UNCHANGED <<text, config, error>>
    /\ UNCHANGED tool_vars
    /\ UNCHANGED run_vars
    /\ UNCHANGED assembler_vars

NextIndex == ToIndex

SpecIndex == InitIndex /\ [][NextIndex]_vars

\* the offset the mapping rule gives a location: the start offset of its
\* line plus its column when the table knows the line, the length of the
\* text otherwise
IndexByRule(text_, location) ==
    LET offsets == _build_line_offsets(text_)
    IN  IF location.line <= Len(offsets)
        THEN offsets[location.line] + location.column
        ELSE Len(text_)

\* C13: for a location whose 1-based line is within the line-offset table,
\* _to_index returns the start offset of that line plus the 0-based column;
\* for a location whose line is beyond the last known line it returns the
\* length of the text.
IndexClampsToTextLength ==
    pc = "indexed" =>
        /\ result[1] = IndexByRule(text, pending.raw_matches[1].start)
        /\ result[2] = IndexByRule(text, pending.raw_matches[1].end)

(***************************************************************************)
(* Further properties of AstGrepSplitter.split, checked under SpecTool.    *)
(***************************************************************************)
\* the non-empty ranges of character offsets inside a text
RangesInside(text_) ==
    {r \in (0..Len(text_)) \X (0..Len(text_)) : r[1] < r[2]}

\* C14: every fragment split returns is a non-empty substring of the text,
\* and the fragments are in ascending document order and do not overlap,
\* whatever locations the tool reports.
FragmentsAreOrderedSubstrings ==
    pc = "done" =>
        \E at \in [1..Len(result) -> RangesInside(text)] :
            /\ \A i \in 1..Len(result) :
                  /\ result[i] # <<>>
                  /\ result[i] = PySlice(text, at[i][1], at[i][2])
            /\ \A i \in 1..(Len(result) - 1) : at[i][2] <= at[i + 1][1]

\* C15: split returns an empty sequence only if the tool reported no match
\* for any pattern: when the answer for the last pattern holds a match, the
\* result is not empty.
EmptyOnlyWithoutMatches ==
    (pc = "done" /\ pending.raw_matches # <<>>) => result # <<>>

(***************************************************************************)
(* HierarchicalSplitter.split called on its own                            *)
(* (hierarchical_splitter.py).                                             *)
(***************************************************************************)
HeadingAlphabet == {"a", "1", ".", "#", " ", NL}

HeadingTexts == UNION {[1..k -> HeadingAlphabet] : k \in 0..MaxHeadingLen}

InitHierarchical ==
    /\ text \in HeadingTexts
    /\ config \in {c \in ToolConfigs : Len(c.ast_grep.patterns) = 1}
    /\ pc = "hierarchical_split"
    /\ matches = <<>>
    /\ pending = NothingPending
    /\ Fresh

\* if has_heading: return self._split_by_heading(lines)
SplitByHeading ==
    /\ pc = "hierarchical_split"
    /\ HasHeading(SplitLines(text))
    /\ used' = "heading"
    /\ result' = _split_by_heading(SplitLines(text))
    /\ pc' = "done"
    /\ UNCHANGED <<text, config, error, is_code, invoked, returned, fragments,
                   chunks, processed>>
    /\ UNCHANGED tool_vars
    /\ UNCHANGED run_vars

\* return self._split_by_paragraph(text)
SplitByParagraph ==
    /\ pc = "hierarchical_split"
    /\ ~HasHeading(SplitLines(text))
    /\ used' = "paragraph"
    /\ result' = _split_by_paragraph(text)
    /\ pc' = "done"
    /\ UNCHANGED <<text, config, error, is_code, invoked, returned, fragments,
                   chunks, processed>>
    /\ UNCHANGED tool_vars
    /\ UNCHANGED run_vars

NextHierarchical ==
    \/ SplitByHeading
    \/ SplitByParagraph

SpecHierarchical == InitHierarchical /\ [][NextHierarchical]_vars

\* a string without its whitespace
NonWhitespace(s) == SelectSeq(s, LAMBDA c : c \notin Whitespace)

\* C16: if at least one line of the text is a heading, split sections the
\* text by headings and never splits it by paragraphs, even with a single
\* heading and blank-line-separated paragraphs; it splits by paragraphs
\* exactly when no line is a heading.
HeadingPrecedence ==
    pc = "done" =>
        LET lines == SplitLines(text)
            some_heading == \E i \in 1..Len(lines) : _is_heading(lines[i])
        IN  /\ used \in {"heading", "paragraph"}
            /\ (used = "heading") <=> some_heading
            /\ (used = "paragraph") <=> ~some_heading
            /\ some_heading => result = _split_by_heading(lines)
            /\ ~some_heading => result = _split_by_paragraph(text)

\* a text with exactly one heading line and paragraphs separated by a blank
\* line, sectioned by its heading into something a paragraph split would
\* not give
HeadingPrecedenceSingleHeading ==
    /\ pc = "done"
    /\ used = "heading"
    /\ LET lines == SplitLines(text)
       IN  Cardinality({i \in 1..Len(lines) : _is_heading(lines[i])}) = 1
    /\ Len(_split_by_paragraph(text)) >= 2
    /\ result # _split_by_paragraph(text)

\* C17: in the output of _split_by_heading every heading line of the input
\* is the first line of a fragment of its own, no fragment holds a heading
\* line after its first line, only the first fragment may start with a line
\* that is no heading, every fragment is non-empty and trimmed, and the
\* fragments are in document order.
HeadingSections ==
    (pc = "done" /\ used = "heading") =>
        LET lines == SplitLines(text)
            headings == SelectSeq(lines, _is_heading)
            first_line(fragment) == SplitLines(fragment)[1]
            headed == SelectSeq(result,
                                LAMBDA fragment : _is_heading(first_line(fragment)))
        IN  /\ \A i \in 1..Len(result) :
                  /\ result[i] # <<>>
                  /\ Strip(result[i]) = result[i]
                  /\ \A k \in 2..Len(SplitLines(result[i])) :
                        ~_is_heading(SplitLines(result[i])[k])
            /\ \A i \in 2..Len(result) : _is_heading(first_line(result[i]))
            /\ Len(headed) = Len(headings)
            /\ \A j \in 1..Len(headings) :
                  first_line(headed[j]) = Strip(headings[j])
            /\ NonWhitespace(Concat(result)) = NonWhitespace(text)

\* a sectioning whose first fragment is the content before the first heading
HeadingSectionsWithPreamble ==
    /\ pc = "done"
    /\ used = "heading"
    /\ Len(result) >= 2
    /\ ~_is_heading(SplitLines(result[1])[1])
    /\ _is_heading(SplitLines(result[2])[1])

(***************************************************************************)
(* TextSegmenter._is_probably_code called on its own (segmenter.py).       *)
(***************************************************************************)
ClassifierAlphabet == {"a", "k", ";", "#", NL}

ClassifierTexts == UNION {[1..k -> ClassifierAlphabet] : k \in 0..MaxLen}

\* TextTypeConfig values; a line that starts with "#" matches two of the
\* three line patterns. TextSegmenter does not validate: the divisor may be 0
ClassifierTextTypes ==
    {[min_score |-> m, line_ratio_divisor |-> d,
      keyword_weight |-> kw, symbol_weight |-> sw, line_weight |-> lw,
      keyword_pattern |-> {"k"}, symbol_pattern |-> {";"},
      line_start_pattern |-> {"k", "#"}, call_like_pattern |-> {";"},
      comment_pattern |-> {"#"}] :
        m \in 1..3, d \in 0..2, kw \in 1..2, sw \in 1..2, lw \in 1..2}

\* the worked example: min_score 5, divisor 10, weights 1
ExampleTextType ==
    [min_score |-> 5, line_ratio_divisor |-> 10,
     keyword_weight |-> 1, symbol_weight |-> 1, line_weight |-> 1,
     keyword_pattern |-> {"k"}, symbol_pattern |-> {";"},
     line_start_pattern |-> {"k", "#"}, call_like_pattern |-> {";"},
     comment_pattern |-> {"#"}]

\* a text of 100 lines, the first one of n symbols, the others blank: its
\* score under ExampleTextType is n + 1
ExampleText(n) == [i \in 1..(n + 100) |-> IF i <= n THEN ";" ELSE NL]

ClassifierConfig(tt) ==
    [max_chunk_chars |-> 1, overlap_chars |-> 0, enable_overlap |-> FALSE,
     ast_grep |-> AstGrep(FALSE, 1), text_type |-> tt]

InitClassifier ==
    /\ \/ /\ text \in ClassifierTexts
          /\ \E tt \in ClassifierTextTypes : config = ClassifierConfig(tt)
       \/ /\ text \in {ExampleText(8), ExampleText(9)}
          /\ config = ClassifierConfig(ExampleTextType)
    /\ pc = "classify"
    /\ matches = <<>>
    /\ pending = NothingPending
    /\ Fresh

\* self._is_probably_code(text)
ClassifyText ==
    /\ pc = "classify"
    /\ is_code' = _is_probably_code(text, config.text_type)
    /\ pc' = "classified"
    /\ UNCHANGED <<text, config, error, result, invoked, returned, used,
                   fragments, chunks, processed>>
    /\ UNCHANGED tool_vars
    /\ UNCHANGED run_vars

NextClassifier == ClassifyText

SpecClassifier == InitClassifier /\ [][NextClassifier]_vars

\* the number of lines of a text, blank ones included
LineCount(text_) ==
    IF text_ = <<>> THEN 0
    ELSE Cardinality({i \in 1..Len(text_) : text_[i] = NL})
         + (IF text_[Len(text_)] = NL THEN 0 ELSE 1)

\* keyword_hits*keyword_weight + symbol_hits*symbol_weight
\* + line_hits*line_weight, counted position by position
ScoreByRule(text_, tt) ==
    LET lines == SplitLines(text_)
        keyword_hits ==
            Cardinality({i \in 1..Len(text_) : text_[i] \in tt.keyword_pattern})
        symbol_hits ==
            Cardinality({i \in 1..Len(text_) : text_[i] \in tt.symbol_pattern})
        line_hits ==
            Cardinality(
                {h \in (1..Len(lines))
                        \X {"line_start_pattern", "call_like_pattern",
                            "comment_pattern"} :
                    LET stripped == Strip(lines[h[1]])
                    IN  stripped # <<>> /\ stripped[1] \in tt[h[2]]})
    IN  keyword_hits * tt.keyword_weight + symbol_hits * tt.symbol_weight
        + line_hits * tt.line_weight

\* max(min_score, line_count // max(1, line_ratio_divisor))
ThresholdByRule(text_, tt) ==
    LET divisor == IF tt.line_ratio_divisor >= 1 THEN tt.line_ratio_divisor ELSE 1
        by_lines == LineCount(text_) \div divisor
    IN  IF tt.min_score >= by_lines THEN tt.min_score ELSE by_lines

\* C18: _is_probably_code says code iff the text has at least one line and
\* keyword_hits*keyword_weight + symbol_hits*symbol_weight
\* + line_hits*line_weight >= max(min_score, line_count // max(1, divisor)),
\* line_count counting blank lines too; an empty text is natural language;
\* with min_score 5, divisor 10 and 100 lines a score of 9 is natural
\* language and a score of 10 is code.
ClassifierRule ==
    pc = "classified" =>
        /\ is_code <=>
              /\ LineCount(text) >= 1
              /\ ScoreByRule(text, config.text_type)
                     >= ThresholdByRule(text, config.text_type)
        /\ text = <<>> => ~is_code
        /\ text = ExampleText(8) =>
              /\ LineCount(text) = 100
              /\ ScoreByRule(text, config.text_type) = 9
              /\ ~is_code
        /\ text = ExampleText(9) =>
              /\ LineCount(text) = 100
              /\ ScoreByRule(text, config.text_type) = 10
              /\ is_code

\* a text with a blank line classified as code with a score that just meets
\* a threshold set by the line count, not by min_score
ClassifierRuleAtLineThreshold ==
    /\ pc = "classified"
    /\ is_code
    /\ \E i \in 1..Len(SplitLines(text)) : Strip(SplitLines(text)[i]) = <<>>
    /\ ThresholdByRule(text, config.text_type) > config.text_type.min_score
    /\ ScoreByRule(text, config.text_type)
           = ThresholdByRule(text, config.text_type)

(***************************************************************************)
(* TextSegmenter._split_long_sentence called on its own, and the assembly  *)
(* of a single fragment (segmenter.py).                                    *)
(***************************************************************************)
SliceTexts == UNION {[1..k -> {"a", "b"}] : k \in 0..MaxSliceLen}

\* the fragment of the worked example: 250 characters
ExampleFragment == [i \in 1..250 |-> IF i % 2 = 0 THEN "a" ELSE "b"]

SliceConfig(m) ==
    [max_chunk_chars |-> m, overlap_chars |-> 0, enable_overlap |-> FALSE,
     ast_grep |-> AstGrep(FALSE, 1), text_type |-> TextType]

InitSlices ==
    /\ \/ /\ text \in SliceTexts
          /\ \E m \in 1..MaxChunk : config = SliceConfig(m)
       \/ /\ text = ExampleFragment
          /\ config = SliceConfig(100)
    /\ pc = "split_long"
    /\ matches = <<>>
    /\ pending = NothingPending
    /\ Fresh

\* split_parts = self._split_long_sentence(sentence)
SliceFragment ==
    /\ pc = "split_long"
    /\ result' = _split_long_sentence(text, config.max_chunk_chars)
    /\ pc' = "sliced"
    /\ UNCHANGED <<text, config, error>>
    /\ UNCHANGED tool_vars
    /\ UNCHANGED run_vars
    /\ UNCHANGED assembler_vars

\* the primary pass and _post_process_chunks on the fragment as the only
\* sentence
AssembleFragment ==
    /\ pc = "sliced"
    /\ chunks' = MergeSentences(<<text>>, config.max_chunk_chars)
    /\ processed' = _post_process_chunks(chunks', config)
    /\ pc' = "done"
    /\ UNCHANGED <<text, config, error, result, is_code, invoked, returned,
                   used, fragments>>
    /\ UNCHANGED tool_vars
    /\ UNCHANGED run_vars

NextSlices ==
    \/ SliceFragment
    \/ AssembleFragment

SpecSlices == InitSlices /\ [][NextSlices]_vars

\* C19: a fragment of length n > max_chunk_chars is cut into
\* ceil(n / max_chunk_chars) consecutive slices, each of exactly
\* max_chunk_chars characters but possibly the last, which concatenate to
\* the fragment; the assembly of that single fragment returns these slices;
\* a fragment of 250 characters with max_chunk_chars 100 and no overlap
\* gives 3 chunks of 100, 100 and 50 characters.
FixedStrideSlices ==
    LET n == Len(text)
        m == config.max_chunk_chars
    IN  (pc \in {"sliced", "done"} /\ n > m) =>
            /\ Len(result) = (n + m - 1) \div m
            /\ \A i \in 1..(Len(result) - 1) : Len(result[i]) = m
            /\ Len(result[Len(result)]) = n - m * (Len(result) - 1)
            /\ Len(result[Len(result)]) \in 1..m
            /\ Concat(result) = text
            /\ pc = "done" => chunks = result /\ processed = result
            /\ text = ExampleFragment =>
                  [i \in 1..Len(result) |-> Len(result[i])] = <<100, 100, 50>>

\* a fragment cut into at least three slices, the last one shorter
FixedStrideSlicesShortLast ==
    /\ pc = "done"
    /\ Len(text) > config.max_chunk_chars
    /\ Len(text) % config.max_chunk_chars # 0
    /\ Len(result) >= 3
    /\ Len(processed) = Len(result)

(***************************************************************************)
(* LongTextAgent.__init__ and _validate_config (agent.py).                 *)
(* Here the strings of a configuration are sequences of characters.        *)
(***************************************************************************)
\* the values a configured string is drawn from: empty, blank, a name
ConfigStrings == {<<>>, <<" ">>, <<"x">>}

\* the pattern lists ast_grep.patterns is drawn from
ConfigPatternLists == {<<>>, << <<"x">> >>, << <<>> >>, << <<"x">>, <<>> >>}

ValidTextType ==
    [min_score |-> 1, line_ratio_divisor |-> 1,
     keyword_weight |-> 1, symbol_weight |-> 1, line_weight |-> 1,
     keyword_pattern |-> <<"x">>, symbol_pattern |-> <<"x">>,
     line_start_pattern |-> <<"x">>, call_like_pattern |-> <<"x">>,
     comment_pattern |-> <<"x">>]

TextTypeNumbers ==
    {"min_score", "line_ratio_divisor", "keyword_weight", "symbol_weight",
     "line_weight"}

TextTypePatterns ==
    {"keyword_pattern", "symbol_pattern", "line_start_pattern",
     "call_like_pattern", "comment_pattern"}

\* TextTypeConfig values with at most one field changed: a number set to 0
\* or a pattern set to the empty or a blank string
ConfigTextTypes ==
    {ValidTextType}
    \cup {[ValidTextType EXCEPT ![f] = 0] : f \in TextTypeNumbers}
    \cup {[ValidTextType EXCEPT ![f] = v] :
            f \in TextTypePatterns, v \in ConfigStrings}

ConfigLlmClients ==
    {[enable |-> e, base_url |-> u, api_key_env |-> <<"x">>, model |-> <<"x">>,
      timeout_seconds |-> 1, max_retries |-> 0] :
        e \in BOOLEAN, u \in {<<>>, <<"x">>}}

ConfigPerplexities ==
    {[enable |-> e, endpoint |-> u, text_field |-> <<"x">>,
      logprobs_field |-> <<"x">>] :
        e \in BOOLEAN, u \in {<<>>, <<"x">>}}

AgentConfigs ==
    {[max_chunk_chars |-> m, overlap_chars |-> o, enable_overlap |-> TRUE,
      summary_chars |-> 1,
      ast_grep |-> [enable |-> a, command |-> c, language |-> l,
                    patterns |-> p],
      text_type |-> tt, llm_client |-> llm, perplexity |-> px] :
        m \in 0..2, o \in (-1)..2, a \in BOOLEAN,
        c \in ConfigStrings, l \in {<<>>, <<"x">>}, p \in ConfigPatternLists,
        tt \in ConfigTextTypes, llm \in ConfigLlmClients,
        px \in ConfigPerplexities}

\* _validate_config: the field whose test raises ValueError, in the order
\* of the tests, or "ok" when no test raises
_validate_config(c) ==
    IF c.max_chunk_chars <= 0 THEN "max_chunk_chars"
    ELSE IF c.overlap_chars < 0 THEN "overlap_chars"
    ELSE IF c.overlap_chars >= c.max_chunk_chars THEN "overlap_chars"
    ELSE IF c.summary_chars <= 0 THEN "summary_chars"
    ELSE IF c.ast_grep.enable /\ Strip(c.ast_grep.command) = <<>>
         THEN "ast_grep.command"
    ELSE IF c.ast_grep.enable /\ Strip(c.ast_grep.language) = <<>>
         THEN "ast_grep.language"
    ELSE IF c.ast_grep.enable /\ Len(c.ast_grep.patterns) = 0
         THEN "ast_grep.patterns"
    ELSE IF c.text_type.min_score <= 0 THEN "text_type.min_score"
    ELSE IF c.text_type.line_ratio_divisor <= 0
         THEN "text_type.line_ratio_divisor"
    ELSE IF c.text_type.keyword_weight <= 0 THEN "text_type.keyword_weight"
    ELSE IF c.text_type.symbol_weight <= 0 THEN "text_type.symbol_weight"
    ELSE IF c.text_type.line_weight <= 0 THEN "text_type.line_weight"
    ELSE IF Strip(c.text_type.keyword_pattern) = <<>>
         THEN "text_type.keyword_pattern"
    ELSE IF Strip(c.text_type.symbol_pattern) = <<>>
         THEN "text_type.symbol_pattern"
    ELSE IF Strip(c.text_type.line_start_pattern) = <<>>
         THEN "text_type.line_start_pattern"
    ELSE IF Strip(c.text_type.call_like_pattern) = <<>>
         THEN "text_type.call_like_pattern"
    ELSE IF Strip(c.text_type.comment_pattern) = <<>>
         THEN "text_type.comment_pattern"
    ELSE IF c.llm_client.enable /\ Strip(c.llm_client.base_url) = <<>>
         THEN "llm_client.base_url"
    ELSE IF c.llm_client.enable /\ Strip(c.llm_client.api_key_env) = <<>>
         THEN "llm_client.api_key_env"
    ELSE IF c.llm_client.enable /\ Strip(c.llm_client.model) = <<>>
         THEN "llm_client.model"
    ELSE IF c.llm_client.enable /\ c.llm_client.timeout_seconds <= 0
         THEN "llm_client.timeout_seconds"
    ELSE IF c.llm_client.enable /\ c.llm_client.max_retries < 0
         THEN "llm_client.max_retries"
    ELSE IF c.perplexity.enable /\ Strip(c.perplexity.endpoint) = <<>>
         THEN "perplexity.endpoint"
    ELSE IF c.perplexity.enable /\ Strip(c.perplexity.text_field) = <<>>
         THEN "perplexity.text_field"
    ELSE IF c.perplexity.enable /\ Strip(c.perplexity.logprobs_field) = <<>>
         THEN "perplexity.logprobs_field"
    ELSE "ok"

\* raise ValueError(...) of _validate_config
ValueError(field) ==
    [type |-> "ValueError", message |-> field, carries |-> "nothing"]

InitAgent ==
    /\ text = <<>>
    /\ config \in AgentConfigs
    /\ pc = "agent_init"
    /\ matches = <<>>
    /\ pending = NothingPending
    /\ Fresh

\* self._validate_config(config) raises: __init__ ends there
RejectConfig ==
    /\ pc = "agent_init"
    /\ _validate_config(config) # "ok"
    /\ error' = ValueError(_validate_config(config))
    /\ pc' = "raised"
    /\ UNCHANGED <<text, config, result>>
    /\ UNCHANGED tool_vars
    /\ UNCHANGED run_vars
    /\ UNCHANGED assembler_vars

\* self._validate_config(config) returns: self._segmenter = TextSegmenter(config)
\* and the other parts are created
ConstructAgent ==
    /\ pc = "agent_init"
    /\ _validate_config(config) = "ok"
    /\ pc' = "constructed"
    /\ UNCHANGED <<text, config, result, error>>
    /\ UNCHANGED tool_vars
    /\ UNCHANGED run_vars
    /\ UNCHANGED assembler_vars

NextAgent ==
    \/ RejectConfig
    \/ ConstructAgent

SpecAgent == InitAgent /\ [][NextAgent]_vars

\* the sizes, the classification settings and the structural splitter
\* settings that have to be refused
SizesRefused(c) ==
    \/ c.max_chunk_chars <= 0
    \/ c.overlap_chars < 0
    \/ c.overlap_chars >= c.max_chunk_chars

ClassificationRefused(c) ==
    \/ \E f \in TextTypePatterns : c.text_type[f] = <<>>
    \/ \E f \in {"keyword_weight", "symbol_weight", "line_weight",
                 "line_ratio_divisor"} : c.text_type[f] <= 0

StructuralRefused(c) ==
    /\ c.ast_grep.enable
    /\ \/ c.ast_grep.command = <<>>
       \/ c.ast_grep.language = <<>>
       \/ c.ast_grep.patterns = <<>>
       \/ \E i \in 1..Len(c.ast_grep.patterns) : c.ast_grep.patterns[i] = <<>>

\* C20: constructing LongTextAgent raises ValueError, and creates no
\* segmenter, whenever max_chunk_chars <= 0, overlap_chars < 0,
\* overlap_chars >= max_chunk_chars, a classification pattern is empty, a
\* classification weight or the divisor is not positive, or the structural
\* splitter is enabled with an empty command, an empty language, an empty
\* pattern list or a pattern list that holds an empty string.
ConfigErrorsCaught ==
    (/\ pc # "agent_init"
     /\ \/ SizesRefused(config)
        \/ ClassificationRefused(config)
        \/ StructuralRefused(config))
        => pc = "raised" /\ error.type = "ValueError"

(***************************************************************************)
(* The primary pass and the fragments of the three splitters.              *)
(***************************************************************************)
\* C21: the primary greedy-merge pass is applied to the fragments of
\* whichever splitter produced them, so no two consecutive non-empty
\* fragments of the structural or the hierarchical splitter whose total
\* length is at most max_chunk_chars are left as two chunks of their own
\* before the overlap pass.
GreedyMergeOnEveryPath ==
    (/\ pc = "done"
     /\ used \in {"structural", "hierarchical"}) =>
              \A i \in 1..(Len(fragments) - 1) :
                  (/\ fragments[i] # <<>>
                   /\ fragments[i + 1] # <<>>
                   /\ Len(fragments[i]) + Len(fragments[i + 1])
                         <= config.max_chunk_chars)
                  => ~(\E j \in 1..(Len(processed) - 1) :
                          /\ processed[j] = fragments[i]
                          /\ processed[j + 1] = fragments[i + 1])

\* segment_text over texts of keywords and full stops, long enough for a
\* sentence longer than max_chunk_chars to follow sentences that merge; the
\* structural splitter is not enabled
PathAlphabet == {"k", "."}

PathTexts == UNION {[1..n -> PathAlphabet] : n \in 0..MaxPathLen}

PathConfigs == {c \in ValidConfigs : ~c.ast_grep.enable}

InitPath ==
    /\ text \in PathTexts
    /\ config \in PathConfigs
    /\ pc = "start"
    /\ matches = <<>>
    /\ pending = NothingPending
    /\ Fresh

NextPath ==
    \/ Classify
    \/ Hierarchical
    \/ Sentences
    \/ PostProcess

SpecPath == InitPath /\ [][NextPath]_vars

\* the units of the primary pass, in order: each sentence, or the
\* fixed-stride slices of a sentence longer than max_chunk_chars
RECURSIVE Units(_, _)
Units(sentences, max_chunk_chars) ==
    IF sentences = <<>> THEN <<>>
    ELSE (IF Len(Head(sentences)) > max_chunk_chars
          THEN _split_long_sentence(Head(sentences), max_chunk_chars)
          ELSE <<Head(sentences)>>)
         \o Units(Tail(sentences), max_chunk_chars)

\* the first of the units that starts at or after the given offset of their
\* concatenation
RECURSIVE UnitAt(_, _)
UnitAt(units, offset) ==
    IF units = <<>> THEN <<>>
    ELSE IF offset <= 0 THEN Head(units)
    ELSE UnitAt(Tail(units), offset - Len(Head(units)))

\* C22: on the sentence path the primary pass flushes the buffer only when
\* the next unit would not fit: for consecutive chunks c_i, c_(i+1) of the
\* primary pass, the length of c_i plus the length of the first unit placed
\* in c_(i+1) exceeds max_chunk_chars; no chunk of the primary pass is empty
\* or longer than max_chunk_chars, and the post-process split leaves the
\* chunks as they are.
GreedyMaximal ==
    (pc = "done" /\ used = "sentence") =>
        LET units == Units(fragments, config.max_chunk_chars)
        IN  /\ \A i \in 1..Len(chunks) :
                  /\ chunks[i] # <<>>
                  /\ Len(chunks[i]) <= config.max_chunk_chars
            /\ processed = chunks
            /\ \A k \in 1..Len(units) : units[k] # <<>>
            /\ Concat(units) = Concat(chunks)
            /\ \A i \in 1..(Len(chunks) - 1) :
                  Len(chunks[i])
                  + Len(UnitAt(units, Len(Concat(SubSeq(chunks, 1, i)))))
                      > config.max_chunk_chars

\* a call on the sentence path in which a slice of an oversized sentence
\* did not fit the buffer, and some units were merged into one chunk
GreedyMaximalSliced ==
    /\ pc = "done"
    /\ used = "sentence"
    /\ Len(chunks) >= 2
    /\ \E i \in 1..Len(fragments) :
          Len(fragments[i]) > config.max_chunk_chars
    /\ Len(chunks) < Len(Units(fragments, config.max_chunk_chars))

(***************************************************************************)
(* Termination: the while loop of TextSegmenter._split_long_sentence, one  *)
(* iteration a step, and the steps of segment_text (segmenter.py).         *)
(* While the loop runs, "pending" holds its locals start_index and parts.  *)
(***************************************************************************)
\* a variant whose stride is one short of max_len
EndIndexShortStride(start_index, max_len, sentence) ==
    Min(start_index + max_len - 1, Len(sentence))

\* end_index = min(start_index + max_len, len(sentence))
EndIndex(start_index, max_len, sentence) ==
    Min(start_index + max_len, Len(sentence))

\* _split_long_sentence(text) is entered: parts = [], start_index = 0
InitWhile ==
    /\ text \in SliceTexts
    /\ \E m \in 1..MaxChunk : config = SliceConfig(m)
    /\ pc = "while"
    /\ matches = <<>>
    /\ pending = [start_index |-> 0, parts |-> <<>>]
    /\ Fresh

\* one iteration of "while start_index < len(sentence)"
WhileBody ==
    /\ pc = "while"
    /\ pending.start_index < Len(text)
    /\ LET end_index == EndIndex(pending.start_index, config.max_chunk_chars,
                                 text)
       IN  pending' = [start_index |-> end_index,
                       parts |-> Append(pending.parts,
                                        PySlice(text, pending.start_index,
                                                end_index))]
    /\ UNCHANGED <<text, config, pc, result, error, step, temp_path>>
    /\ UNCHANGED tool_vars
    /\ UNCHANGED assembler_vars

\* the loop condition fails: return parts
WhileReturn ==
    /\ pc = "while"
    /\ ~(pending.start_index < Len(text))
    /\ result' = pending.parts
    /\ pc' = "returned_parts"
    /\ UNCHANGED <<text, config, error>>
    /\ UNCHANGED tool_vars
    /\ UNCHANGED run_vars
    /\ UNCHANGED assembler_vars

InitTermination ==
    \/ InitWhile
    \/ InitPath

NextTermination ==
    \/ WhileBody
    \/ WhileReturn
    \/ Classify
    \/ Hierarchical
    \/ Sentences
    \/ PostProcess

\* the interpreter keeps running the call: a step that can be taken is taken
SpecTermination ==
    InitTermination /\ [][NextTermination]_vars /\ WF_vars(NextTermination)

PostOutcomes ==
    {"RequestException", "status >= 400", "text", "no text",
     "not JSON: RequestException", "not JSON: ValueError"}

LlmClientConfigs ==
    {[enable |-> e, max_retries |-> r] : e \in BOOLEAN, r \in 0..MaxRetries}

InitLlm ==
    /\ text = <<>>
    /\ config \in LlmClientConfigs
    /\ pc = "generate"
    /\ matches = <<>>
    /\ pending = [attempt |-> 0, last_error |-> ""]
    /\ Fresh

\* the statements of generate before the loop: the enable test, and
\* _read_api_key, which raises when no key is found
EnterGenerate ==
    /\ pc = "generate"
    /\ \E key_found \in BOOLEAN :
        IF ~config.enable
        THEN /\ error' = [type |-> "RuntimeError", message |-> "not enabled",
                          carries |-> "nothing"]
             /\ pc' = "raised"
        ELSE IF ~key_found
        THEN /\ error' = [type |-> "RuntimeError", message |-> "key missing",
                          carries |-> "api_key_env"]
             /\ pc' = "raised"
        ELSE /\ pc' = "attempts"
             /\ UNCHANGED error
    /\ UNCHANGED <<text, config, result>>
    /\ UNCHANGED tool_vars
    /\ UNCHANGED run_vars
    /\ UNCHANGED assembler_vars

\* one turn of "for attempt in range(self._config.max_retries + 1)"
PostAttempt ==
    /\ pc = "attempts"
    /\ pending.attempt < config.max_retries + 1
    /\ \E outcome \in PostOutcomes :
        /\ launches' = Append(launches, outcome)
        /\ IF outcome \in {"RequestException", "status >= 400",
                           "not JSON: RequestException"}
           THEN \* last_error is set, time.sleep, the next turn
                /\ pending' = [attempt |-> pending.attempt + 1,
                               last_error |-> outcome]
                /\ UNCHANGED <<pc, result, error>>
           ELSE IF outcome = "text"
           THEN \* return self._extract_generated_text(data)
                /\ result' = <<"text">>
                /\ pc' = "returned"
                /\ UNCHANGED <<pending, error>>
           ELSE IF outcome = "no text"
           THEN \* _extract_generated_text raises
                /\ error' = [type |-> "RuntimeError",
                             message |-> "no text field",
                             carries |-> "nothing"]
                /\ pc' = "raised"
                /\ UNCHANGED <<pending, result>>
           ELSE \* the ValueError of response.json() leaves generate
                /\ error' = [type |-> "ValueError", message |-> "not JSON",
                             carries |-> "nothing"]
                /\ pc' = "raised"
                /\ UNCHANGED <<pending, result>>
    /\ UNCHANGED <<text, config, pattern_index, matches, files, created,
                   step, temp_path>>
    /\ UNCHANGED assembler_vars

\* the loop is over: raise RuntimeError("..." + last_error)
AttemptsExhausted ==
    /\ pc = "attempts"
    /\ ~(pending.attempt < config.max_retries + 1)
    /\ error' = [type |-> "RuntimeError", message |-> "API call failed: ",
                 carries |-> pending.last_error]
    /\ pc' = "raised"
    /\ UNCHANGED <<text, config, result>>
    /\ UNCHANGED tool_vars
    /\ UNCHANGED run_vars
    /\ UNCHANGED assembler_vars

NextLlm ==
    \/ EnterGenerate
    \/ PostAttempt
    \/ AttemptsExhausted

SpecLlm == InitLlm /\ [][NextLlm]_vars

\* C24: generate with the client enabled sends at most max_retries + 1 POST
\* requests; no request follows the first response with a status below 400;
\* when every attempt fails (status 400 or more, or a request exception) it
\* raises the RuntimeError of the failed call after exactly max_retries + 1
\* attempts, carrying the last failure; with the client disabled it raises
\* before any request is sent.
RetryDiscipline ==
    /\ Len(launches) <= config.max_retries + 1
    /\ \A i \in 1..(Len(launches) - 1) :
          launches[i] \in {"RequestException", "status >= 400"}
    /\ (/\ pc = "raised"
        /\ launches # <<>>
        /\ \A i \in 1..Len(launches) :
              launches[i] \in {"RequestException", "status >= 400"}) =>
          /\ error.type = "RuntimeError"
          /\ error.message = "API call failed: "
          /\ Len(launches) = config.max_retries + 1
          /\ error.carries = launches[Len(launches)]
    /\ ~config.enable =>
          /\ launches = <<>>
          /\ pc # "generate" => pc = "raised" /\ error.type = "RuntimeError"

(***************************************************************************)
(* apply_env_overrides (env_override.py).  "config" is the AgentConfig     *)
(* given, its strings sequences of characters; "pending" holds the process *)
(* environment os.getenv reads.                                            *)
(***************************************************************************)
\* os.getenv(env_key): None for a variable that is not set, its string for
\* one that is
Unset == [is_none |-> TRUE, string |-> <<>>]

Set(string) == [is_none |-> FALSE, string |-> string]

IntKeys ==
    {"MAX_CHUNK_CHARS", "OVERLAP_CHARS", "SUMMARY_CHARS",
     "TEXT_TYPE_MIN_SCORE", "TEXT_TYPE_LINE_RATIO_DIVISOR",
     "TEXT_TYPE_KEYWORD_WEIGHT", "TEXT_TYPE_SYMBOL_WEIGHT",
     "TEXT_TYPE_LINE_WEIGHT", "LLM_TIMEOUT_SECONDS", "LLM_MAX_RETRIES"}

BoolKeys ==
    {"ENABLE_OVERLAP", "ENABLE_SELF_CHECK", "AST_GREP_ENABLE", "LLM_ENABLE",
     "PERPLEXITY_ENABLE"}

StrKeys ==
    {"AST_GREP_COMMAND", "AST_GREP_LANGUAGE", "TEXT_TYPE_KEYWORD_PATTERN",
     "TEXT_TYPE_SYMBOL_PATTERN", "TEXT_TYPE_LINE_START_PATTERN",
     "TEXT_TYPE_CALL_LIKE_PATTERN", "TEXT_TYPE_COMMENT_PATTERN",
     "LLM_BASE_URL", "LLM_API_KEY_ENV", "LLM_MODEL", "PERPLEXITY_ENDPOINT",
     "PERPLEXITY_TEXT_FIELD", "PERPLEXITY_LOGPROBS_FIELD"}

EnvKeys == IntKeys \cup BoolKeys \cup StrKeys \cup {"AST_GREP_PATTERNS"}

\* the values a variable that is set is drawn from: a number that is also a
\* truth value, an upper-case truth value after a blank, and a list with a
\* blank item
RawValues == {<<"1">>, <<" ", "Y">>, <<"x", ",", " ">>}

\* the environments with at most n of the variables set
RECURSIVE Environments(_)
Environments(n) ==
    IF n = 0 THEN {[k \in EnvKeys |-> Unset]}
    ELSE LET fewer == Environments(n - 1)
         IN  fewer \cup {[e EXCEPT ![k] = v] :
                            e \in fewer, k \in EnvKeys, v \in {Set(r) : r \in RawValues}}

\* what a call gives: a value, or the exception it raises
Returns(value) == [raises |-> "None", value |-> value]

Raises(type) == [raises |-> type, value |-> <<>>]

Digits == {"0", "1", "2", "3", "4", "5", "6", "7", "8", "9"}

DigitValue(c) ==
    CASE c = "0" -> 0 [] c = "1" -> 1 [] c = "2" -> 2 [] c = "3" -> 3
      [] c = "4" -> 4 [] c = "5" -> 5 [] c = "6" -> 6 [] c = "7" -> 7
      [] c = "8" -> 8 [] c = "9" -> 9

RECURSIVE DecimalValue(_)
DecimalValue(s) ==
    IF s = <<>> THEN 0
    ELSE 10 * DecimalValue(SubSeq(s, 1, Len(s) - 1)) + DigitValue(s[Len(s)])

\* int(raw) of a string without a sign: the number its digits write, blanks
\* around them allowed; ValueError for anything else
PyInt(raw) ==
    LET s == Strip(raw)
    IN  IF s # <<>> /\ \A i \in 1..Len(s) : s[i] \in Digits
        THEN Returns(DecimalValue(s))
        ELSE Raises("ValueError")

\* raw.lower()
Lower(raw) == [i \in 1..Len(raw) |-> IF raw[i] = "Y" THEN "y" ELSE raw[i]]

\* raw.split(",")
RECURSIVE SplitComma(_, _, _)
SplitComma(raw, i, cur) ==
    IF i > Len(raw) THEN <<cur>>
    ELSE IF raw[i] = ","
         THEN <<cur>> \o SplitComma(raw, i + 1, <<>>)
         ELSE SplitComma(raw, i + 1, Append(cur, raw[i]))

_override_int(raw, default_value) ==
    IF raw = Unset THEN Returns(default_value) ELSE PyInt(raw.string)

_override_bool(raw, default_value) ==
    IF raw = Unset THEN Returns(default_value)
    ELSE LET normalized == Lower(Strip(raw.string))
         IN  IF normalized \in {<<"1">>, <<"t", "r", "u", "e">>,
                                <<"y", "e", "s">>, <<"y">>, <<"o", "n">>}
             THEN Returns(TRUE)
             ELSE IF normalized \in {<<"0">>, <<"f", "a", "l", "s", "e">>,
                                     <<"n", "o">>, <<"n">>, <<"o", "f", "f">>}
             THEN Returns(FALSE)
             ELSE Returns(default_value)

_override_str(raw, default_value) ==
    IF raw = Unset THEN Returns(default_value)
    ELSE IF Strip(raw.string) = <<>> THEN Returns(default_value)
    ELSE Returns(raw.string)

\* the call of a dataclass with keyword arguments: an argument that raises
\* ends the call before the class is called (the arguments that can raise
\* all raise ValueError); the class raises TypeError when a field without a
\* default gets no argument
Dataclass(fields, kwargs) ==
    IF \E f \in DOMAIN kwargs : kwargs[f].raises # "None"
    THEN Raises(kwargs[CHOOSE f \in DOMAIN kwargs :
                           kwargs[f].raises # "None"].raises)
    ELSE IF \E f \in fields : f \notin DOMAIN kwargs
    THEN Raises("TypeError")
    ELSE Returns([f \in DOMAIN kwargs |-> kwargs[f].value])

\* the fields of the dataclasses, none of which has a default
AstGrepConfigFields == {"enable", "command", "language", "patterns"}

TextTypeConfigFields == TextTypeNumbers \cup TextTypePatterns

LlmClientConfigFields ==
    {"enable", "base_url", "api_key_env", "model", "timeout_seconds",
     "max_retries", "generate_path", "auth_type"}

PerplexityConfigFields == {"enable", "endpoint", "text_field", "logprobs_field"}

AgentConfigFields ==
    {"max_chunk_chars", "overlap_chars", "enable_overlap", "summary_chars",
     "enable_self_check", "ast_grep", "text_type", "llm_client", "perplexity"}

_override_ast_grep(environ, config_) ==
    LET env_patterns == environ["AST_GREP_PATTERNS"]
        patterns_value ==
            IF env_patterns # Unset
            THEN SelectSeq([i \in 1..Len(SplitComma(env_patterns.string, 1,
                                                     <<>>)) |->
                               Strip(SplitComma(env_patterns.string, 1,
                                                <<>>)[i])],
                           LAMBDA item : item # <<>>)
            ELSE config_.patterns
    IN  Dataclass(AstGrepConfigFields,
            [enable |-> _override_bool(environ["AST_GREP_ENABLE"],
                                       config_.enable),
             command |-> _override_str(environ["AST_GREP_COMMAND"],
                                       config_.command),
             language |-> _override_str(environ["AST_GREP_LANGUAGE"],
                                        config_.language),
             patterns |-> Returns(patterns_value)])

_override_text_type(environ, config_) ==
    Dataclass(TextTypeConfigFields,
        [min_score |-> _override_int(environ["TEXT_TYPE_MIN_SCORE"],
                                     config_.min_score),
         line_ratio_divisor |->
             _override_int(environ["TEXT_TYPE_LINE_RATIO_DIVISOR"],
                           config_.line_ratio_divisor),
         keyword_weight |-> _override_int(environ["TEXT_TYPE_KEYWORD_WEIGHT"],
                                          config_.keyword_weight),
         symbol_weight |-> _override_int(environ["TEXT_TYPE_SYMBOL_WEIGHT"],
                                         config_.symbol_weight),
         line_weight |-> _override_int(environ["TEXT_TYPE_LINE_WEIGHT"],
                                       config_.line_weight),
         keyword_pattern |-> _override_str(environ["TEXT_TYPE_KEYWORD_PATTERN"],
                                           config_.keyword_pattern),
         symbol_pattern |-> _override_str(environ["TEXT_TYPE_SYMBOL_PATTERN"],
                                          config_.symbol_pattern),
         line_start_pattern |->
             _override_str(environ["TEXT_TYPE_LINE_START_PATTERN"],
                           config_.line_start_pattern),
         call_like_pattern |->
             _override_str(environ["TEXT_TYPE_CALL_LIKE_PATTERN"],
                           config_.call_like_pattern),
         comment_pattern |-> _override_str(environ["TEXT_TYPE_COMMENT_PATTERN"],
                                           config_.comment_pattern)])

_override_llm_client(environ, config_) ==
    Dataclass(LlmClientConfigFields,
        [enable |-> _override_bool(environ["LLM_ENABLE"], config_.enable),
         base_url |-> _override_str(environ["LLM_BASE_URL"], config_.base_url),
         api_key_env |-> _override_str(environ["LLM_API_KEY_ENV"],
                                       config_.api_key_env),
         model |-> _override_str(environ["LLM_MODEL"], config_.model),
         timeout_seconds |-> _override_int(environ["LLM_TIMEOUT_SECONDS"],
                                           config_.timeout_seconds),
         max_retries |-> _override_int(environ["LLM_MAX_RETRIES"],
                                       config_.max_retries)])

_override_perplexity(environ, config_) ==
    Dataclass(PerplexityConfigFields,
        [enable |-> _override_bool(environ["PERPLEXITY_ENABLE"], config_.enable),
         endpoint |-> _override_str(environ["PERPLEXITY_ENDPOINT"],
                                    config_.endpoint),
         text_field |-> _override_str(environ["PERPLEXITY_TEXT_FIELD"],
                                      config_.text_field),
         logprobs_field |-> _override_str(environ["PERPLEXITY_LOGPROBS_FIELD"],
                                          config_.logprobs_field)])

\* the four nested configurations are built first, in this order, then the
\* arguments of AgentConfig; the first exception ends the call
apply_env_overrides(environ, config_) ==
    LET ast_grep == _override_ast_grep(environ, config_.ast_grep)
        text_type == _override_text_type(environ, config_.text_type)
        llm_client == _override_llm_client(environ, config_.llm_client)
        perplexity == _override_perplexity(environ, config_.perplexity)
    IN  IF ast_grep.raises # "None" THEN ast_grep
        ELSE IF text_type.raises # "None" THEN text_type
        ELSE IF llm_client.raises # "None" THEN llm_client
        ELSE IF perplexity.raises # "None" THEN perplexity
        ELSE Dataclass(AgentConfigFields,
                [max_chunk_chars |-> _override_int(environ["MAX_CHUNK_CHARS"],
                                                   config_.max_chunk_chars),
                 overlap_chars |-> _override_int(environ["OVERLAP_CHARS"],
                                                 config_.overlap_chars),
                 enable_overlap |-> _override_bool(environ["ENABLE_OVERLAP"],
                                                   config_.enable_overlap),
                 summary_chars |-> _override_int(environ["SUMMARY_CHARS"],
                                                 config_.summary_chars),
                 enable_self_check |->
                     _override_bool(environ["ENABLE_SELF_CHECK"],
                                    config_.enable_self_check),
                 ast_grep |-> ast_grep,
                 text_type |-> text_type,
                 llm_client |-> llm_client,
                 perplexity |-> perplexity])

\* the configurations apply_env_overrides is given
EnvConfigs ==
    {[max_chunk_chars |-> 2, overlap_chars |-> 0, enable_overlap |-> e,
      summary_chars |-> 1, enable_self_check |-> FALSE,
      ast_grep |-> [enable |-> e, command |-> <<"x">>, language |-> <<"x">>,
                    patterns |-> << <<"x">> >>],
      text_type |-> ValidTextType,
      llm_client |-> [enable |-> FALSE, base_url |-> <<"x">>,
                      api_key_env |-> <<"x">>, model |-> <<"x">>,
                      timeout_seconds |-> 1, max_retries |-> 0,
                      generate_path |-> <<"x">>, auth_type |-> <<"x">>],
      perplexity |-> [enable |-> FALSE, endpoint |-> <<"x">>,
                      text_field |-> <<"x">>, logprobs_field |-> <<"x">>]] :
        e \in BOOLEAN}

InitEnv ==
    /\ text = <<>>
    /\ config \in EnvConfigs
    /\ pc = "apply_env_overrides"
    /\ matches = <<>>
    /\ pending \in {[environ |-> e] : e \in Environments(MaxEnvSet)}
    /\ Fresh

\* the call apply_env_overrides(config): it returns the new configuration,
\* or raises
ApplyEnvOverrides ==
    /\ pc = "apply_env_overrides"
    /\ LET outcome == apply_env_overrides(pending.environ, config)
       IN  IF outcome.raises = "None"
           THEN /\ result' = outcome.value
                /\ pc' = "returned"
                /\ UNCHANGED error
           ELSE /\ error' = [type |-> outcome.raises, message |-> "",
                             carries |-> "nothing"]
                /\ pc' = "raised"
                /\ UNCHANGED result
    /\ UNCHANGED <<text, config>>
    /\ UNCHANGED tool_vars
    /\ UNCHANGED run_vars
    /\ UNCHANGED assembler_vars

NextEnv == ApplyEnvOverrides

SpecEnv == InitEnv /\ [][NextEnv]_vars

\* C25: called when none of the override variables is set,
\* apply_env_overrides returns normally a configuration equal to the one it
\* was given, field for field, the nested configurations included.
NoOverrideIsIdentity ==
    (/\ pc # "apply_env_overrides"
     /\ \A k \in EnvKeys : pending.environ[k] = Unset) =>
        /\ pc = "returned"
        /\ result = config

====
